---- MODULE Spec2Model ----
(***************************************************************************)
(* Model of demo_reflex/capa_service.py: the CapaService singleton, its    *)
(* analyze_single_image / analyze_multi_angle / analyze_wd_only methods    *)
(* and the analyzer handles they construct, use and shut down.             *)
(*                                                                         *)
(* Numbers: a confidence or a score is an integer count of hundredths      *)
(* (125 is 1.25), a canon deviation an integer count of tenths of a        *)
(* percent (386 is 38.6), a width an integer count of hundredths.          *)
(***************************************************************************)
EXTENDS Integers, Sequences, FiniteSets, TLC

VARIABLES
    core_analyzer,          \* CapaService.core_analyzer: a handle id, 0 is None
    multi_angle_analyzer,   \* CapaService.multi_angle_analyzer: a handle id, 0 is None
    handles,                \* every analyzer constructed so far, by id
    calls,                  \* how many calls of the service were made so far
    pc,                     \* where each worker thread stands in its call
    call,                   \* the arguments of each thread's current call
    mine,                   \* the handle the current call constructed, 0 if none
    using,                  \* the handle whose analyze operation the thread is inside, 0 if none
    raw,                    \* what the SDK's analyze operation gave the call
    exc,                    \* the exception the try body raised, "" if none
    partial,                \* results_dict as far as it was built when the body raised
    pending,                \* the value the try/except body returns
    outcome,                \* "none", "returned" or "raised" (an exception left the call)
    ret,                    \* the record the call returned
    frontal_image,          \* DemoState.frontal_image: the preview data URI, "" if none
    frontal_image_path,     \* DemoState.frontal_image_path
    profile_image,          \* DemoState.profile_image
    profile_image_path,     \* DemoState.profile_image_path
    is_processing,          \* DemoState.is_processing
    error_message,          \* DemoState.error_message
    results,                \* DemoState.results: {} or the record of the last run
    step                    \* where DemoState.analyze stands, "idle" between events

\* the fields of DemoState
demo == <<frontal_image, frontal_image_path, profile_image, profile_image_path,
          is_processing, error_message, results, step>>

vars == <<core_analyzer, multi_angle_analyzer, handles, calls, pc, call, mine, using,
          raw, exc, partial, pending, outcome, ret, demo>>

(***************************************************************************)
(* Bounds of the model.                                                    *)
(***************************************************************************)
MaxCalls == 2            \* calls of the service in one behaviour
MaxCanons == 1           \* canons in one neoclassical result

Threads == {1, 2}        \* asyncio.to_thread workers calling the shared service

(***************************************************************************)
(* Python values.  NoneV is None; Missing is an attribute the SDK object   *)
(* does not have (hasattr is False); Num(v) a number; Flag(b) a bool.      *)
(***************************************************************************)
NoneV == [tag |-> "none"]
Missing == [tag |-> "missing"]
Num(v) == [tag |-> "num", v |-> v]
Flag(b) == [tag |-> "bool", v |-> b]
Str(x) == [tag |-> "str", v |-> x]
List(q) == [tag |-> "list", v |-> q]
NotYet == [tag |-> "notyet"]

HasAttr(x) == x # Missing
Truthy(x) == x # NoneV /\ x # Missing

\* An evaluation either raises or gives a value.
Raise(msg) == [raised |-> TRUE, msg |-> msg]
Ok(v) == [raised |-> FALSE, v |-> v]

\* float(x): a number converts; None is a TypeError; a missing attribute was
\* an AttributeError before float was reached.
Float(x) ==
    IF x.tag = "num" THEN Ok(x.v)
    ELSE IF x.tag = "none" THEN Raise("TypeError")
    ELSE Raise("AttributeError")

Min(a, b) == IF a <= b THEN a ELSE b
Max(a, b) == IF a >= b THEN a ELSE b
Abs(a) == IF a < 0 THEN 0 - a ELSE a

\* a clamp without its lower bound
Clamp_NoLower(x) == Min(100, x)
\* max(0.0, min(1.0, x)), in hundredths
Clamp(x) == Max(0, Min(100, x))

(***************************************************************************)
(* What the SDK may hand back.  The SDK is opaque, so its result objects   *)
(* are drawn from small sets that hold every case the service tells apart: *)
(* an attribute present, None, 0 or missing; a confidence below, inside    *)
(* and above [0,1]; a canon deviation on each side of the 10.0 threshold.  *)
(***************************************************************************)
ConfValues == {-10, 65, 125}
ConfRep == {125}

\* result.wd_result: a WDResult of the SDK
WDObject(cm, px, conf) ==
    [wd_value_cm |-> cm, wd_value |-> px, measurement_confidence |-> conf,
     bizygomatic_width_cm |-> IF cm \in {Missing, NoneV, Num(0)} THEN cm ELSE Num(1444),
     bizygomatic_width |-> Num(54210),
     bigonial_width_cm |-> IF cm \in {Missing, NoneV, Num(0)} THEN cm ELSE Num(1054),
     bigonial_width |-> Num(39690),
     primary_classification |-> Str("balanced"),
     personality_profile |-> Missing,
     demographic_percentile |-> Missing, normalized_wd_z_score |-> Missing]
WDFull ==
    {WDObject(cm, Num(px), Num(c)) :
        cm \in {Missing, NoneV, Num(0), Num(390)}, px \in {0, 14520}, c \in ConfValues}
WDRep == {WDObject(Num(390), Num(14520), Num(65))}
\* a WDResult whose three centimeter fields are calibrated or not (0, or
\* absent) independently of one another: the WD value is 0 in centimeters
\* when the two widths are equal
WDWidths ==
    {[w EXCEPT !.wd_value_cm = cm, !.bizygomatic_width_cm = bz, !.bigonial_width_cm = bg] :
        w \in WDRep,
        cm \in {Num(0), Num(390)},
        bz \in {Missing, Num(0), Num(1444)},
        bg \in {Num(0), Num(1054)}}
\* a WDResult with the demographic normalization of later SDK versions: a
\* percentile (in hundredths of a percent point: 6250 = 62.5) inside, at the
\* ends of and outside 0..100, None or absent, with or without a z-score
PercentileValues == {-500, 0, 6250, 10000, 12000}
WDDemographic ==
    {[w EXCEPT !.demographic_percentile = p, !.normalized_wd_z_score = z] :
        w \in WDRep,
        p \in {Missing, NoneV} \cup {Num(x) : x \in PercentileValues},
        z \in {Missing, NoneV, Num(120)}}

\* a WDResult with a personality profile: absent or None, with scores inside
\* and outside [0, 1] under the _score names, or with labels, another text
\* and None under the plain names and some attributes absent
WDPersonality ==
    {[w EXCEPT !.personality_profile = pp] :
        w \in WDRep,
        pp \in {NoneV,
                [social_orientation_score |-> Num(-10), social_orientation |-> Str("High"),
                 relational_field_score |-> Num(0), relational_field |-> Missing,
                 communication_style_score |-> Num(65), communication_style |-> Missing,
                 leadership_tendency |-> Num(125), leadership |-> Missing,
                 interpersonal_effectiveness |-> Num(100),
                 emotional_expressiveness |-> Num(90),
                 social_energy_level |-> Num(10),
                 conflict_resolution_style |-> NoneV],
                [social_orientation_score |-> Missing, social_orientation |-> Str("Very High"),
                 relational_field_score |-> Missing, relational_field |-> Str("High"),
                 communication_style_score |-> Missing, communication_style |-> Str("Moderate"),
                 leadership_tendency |-> Missing, leadership |-> Str("Low"),
                 interpersonal_effectiveness |-> Str("Very Low"),
                 emotional_expressiveness |-> Str("N/A"),
                 social_energy_level |-> Str("high"),
                 conflict_resolution_style |-> Missing]}}

\* result.forehead_result: measurement_confidence may be missing (a result
\* object of another SDK version), which makes the service raise.
FHObject(conf) ==
    [measurement_confidence |-> conf, slant_angle_degrees |-> Num(1500),
     forehead_height |-> Num(6000), impulsiveness_level |-> Str("moderate"),
     impulsivity_profile |-> Missing]
FHFull == {FHObject(Num(c)) : c \in ConfValues} \cup {FHObject(Missing)}
FHRep == {FHObject(Num(125))}
\* forehead results that differ in what they say of impulsivity: every
\* level, one in capitals and an unknown one without a BIS-11 profile, and
\* profiles (absent, None, or with values in [0, 1], 0.0 and 1.0 among
\* them, a None and an absent attribute)
FHImpulsivity ==
    {[f EXCEPT !.impulsiveness_level = Str(l)] :
        f \in FHRep, l \in {"very_low", "low", "high", "very_high", "HIGH", "extreme"}}
    \cup
    {[f EXCEPT !.impulsivity_profile = ip] :
        f \in FHRep,
        ip \in {NoneV,
                [motor_impulsiveness |-> Num(0), cognitive_impulsiveness |-> Num(65),
                 non_planning_impulsiveness |-> Num(100), attentional_impulsiveness |-> NoneV,
                 risk_taking_tendency |-> Missing, sensation_seeking |-> Num(30),
                 behavioral_inhibition |-> Num(50), emotional_regulation |-> Num(90)],
                [motor_impulsiveness |-> Num(20), cognitive_impulsiveness |-> Num(65),
                 non_planning_impulsiveness |-> Num(100), attentional_impulsiveness |-> Num(40),
                 risk_taking_tendency |-> Num(10), sensation_seeking |-> Num(30),
                 behavioral_inhibition |-> Num(50), emotional_regulation |-> Num(90)]}}

\* result.morphology_result
MorphObject(conf) ==
    [measurement_confidence |-> conf, primary_shape |-> Str("oval"),
     facial_index |-> Num(130), facial_width_height_ratio |-> Num(77),
     shape_confidence |-> Missing, shape_probabilities |-> Missing,
     secondary_shapes |-> Missing]
MorphFull == {MorphObject(Num(c)) : c \in ConfValues}
MorphRep == {MorphObject(Num(125))}
\* morphology results that differ in their shape_classification: its
\* confidence absent, inside, at the ends of and outside [0, 1]; a
\* probability of each shape (the items of the mapping in their order, with
\* and without equal probabilities), an empty mapping or None; secondary
\* shapes
MorphShapes ==
    {[m EXCEPT !.shape_confidence = x[1], !.shape_probabilities = x[2],
               !.secondary_shapes = x[3]] :
        m \in {MorphObject(Num(65))},
        x \in {<<Missing, Missing, Missing>>,
               <<Num(-10), Missing, Missing>>,
               <<Num(0), Missing, Missing>>,
               <<Num(80), Missing, Missing>>,
               <<Num(100), Missing, Missing>>,
               <<Num(125), Missing, Missing>>,
               <<Num(80), NoneV, Missing>>,
               <<Num(80), List(<<<<"round", 30>>, <<"oval", 50>>, <<"square", 20>>>>), Missing>>,
               <<Num(80), List(<<<<"round", 25>>, <<"oval", 50>>, <<"square", 25>>>>),
                 List(<<"round">>)>>,
               <<Num(80), List(<<>>), List(<<"round", "square">>)>>,
               <<Missing, Missing, List(<<"round", "square">>)>>}}

\* one canon of result.neoclassical_result.canons
CanonObject(name, dev, valid, tol) ==
    [canon_name |-> name, measured_ratio |-> Num(100), deviation_percentage |-> dev,
     is_valid |-> valid, confidence |-> Num(80), validity_score |-> Num(90),
     expected_ratio |-> Num(100), acceptable_deviation |-> tol]
DeviationValues == {-101, -100, 95, 100, 101, 386}
CanonFull ==
    {CanonObject(Str("Canon A"), d, v, Num(150)) :
        d \in {Missing} \cup {Num(x) : x \in DeviationValues},
        v \in {Missing, Flag(TRUE), Flag(FALSE)}}
    \cup
    {CanonObject(n, Num(d), Flag(TRUE), tol) :
        n \in {Missing, Str("Canon A")}, d \in {95, 386}, tol \in {Missing, Num(30)}}
CanonRep == {CanonObject(Str("Canon A"), Num(386), Flag(TRUE), Num(150))}

RECURSIVE SeqsUpTo(_, _)
SeqsUpTo(S, n) ==
    IF n = 0 THEN {<<>>}
    ELSE LET shorter == SeqsUpTo(S, n - 1)
         IN  shorter \cup {Append(q, x) : q \in {r \in shorter : Len(r) = n - 1}, x \in S}

NeoObject(score, canons) ==
    [overall_validity_score |-> score, confidence |-> Num(70), canons |-> List(canons)]
NeoFull == {NeoObject(Num(80), cs) : cs \in SeqsUpTo(CanonFull, MaxCanons)}
NeoRep == {NeoObject(Num(80), <<c>>) : c \in CanonRep}
\* the score, the confidence and a canon's confidence below, inside and above
\* [0,1]
NeoConfFull ==
    {[NeoObject(Num(score), <<[c EXCEPT !.confidence = Num(canonConf)]>>)
         EXCEPT !.confidence = Num(conf)] :
        score \in ConfValues, conf \in ConfValues, canonConf \in ConfValues, c \in CanonRep}

\* result.processing_metadata
MetaObject(conf) == [overall_confidence |-> conf]
MetaFull == {MetaObject(Num(c)) : c \in ConfValues}
MetaRep == {MetaObject(Num(65))}

Opt(S) == S \cup {NoneV}

\* An AnalysisResult of CoreAnalyzer.analyze_image (also one angle's result
\* of the multi-angle analyzer).
ResultObject(wd, fh, morph, neo, meta) ==
    [wd_result |-> wd, forehead_result |-> fh, morphology_result |-> morph,
     neoclassical_result |-> neo, processing_metadata |-> meta]

\* One module at a time takes all its values; the others are absent or a
\* representative.
ResultSlices ==
    {ResultObject(wd, fh, mo, neo, me) :
        wd \in Opt(WDFull), fh \in Opt(FHRep), mo \in Opt(MorphRep),
        neo \in Opt(NeoRep), me \in MetaRep}
    \cup
    {ResultObject(wd, fh, mo, neo, me) :
        wd \in Opt(WDRep), fh \in Opt(FHFull), mo \in Opt(MorphFull),
        neo \in Opt(NeoRep), me \in MetaRep}
    \cup
    {ResultObject(wd, NoneV, NoneV, neo, me) :
        wd \in Opt(WDRep), neo \in NeoFull, me \in MetaRep}
    \cup
    {ResultObject(wd, NoneV, NoneV, neo, me) :
        wd \in Opt(WDRep), neo \in Opt(NeoRep), me \in Opt(MetaFull)}
    \cup
    {ResultObject(NoneV, NoneV, NoneV, neo, me) : neo \in NeoConfFull, me \in MetaRep}
    \cup
    {ResultObject(NoneV, fh, NoneV, NoneV, me) : fh \in FHImpulsivity, me \in MetaRep}
    \cup
    {ResultObject(NoneV, NoneV, mo, NoneV, me) : mo \in MorphShapes, me \in MetaRep}
    \cup
    {ResultObject(wd, NoneV, NoneV, NoneV, me) :
        wd \in WDDemographic \cup WDWidths \cup WDPersonality, me \in MetaRep}

\* The few results that tell the exit paths of a call apart: a full result
\* and one whose forehead object makes the service raise after the WD
\* record was built.
ResultsLean ==
    {ResultObject(wd, fh, NoneV, NoneV, NoneV) : wd \in WDRep, fh \in {FHObject(Missing)} \cup FHRep}

(***************************************************************************)
(* Building records.  A builder gives Ok(record) or the exception that     *)
(* building raised; FirstRaised picks the first raising evaluation of a    *)
(* dict literal, in source order.                                          *)
(***************************************************************************)
RECURSIVE FirstRaised(_)
FirstRaised(evals) ==
    IF evals = <<>> THEN Ok(NoneV)
    ELSE IF Head(evals).raised THEN Head(evals)
    ELSE FirstRaised(Tail(evals))

Getattr(x, default) == IF HasAttr(x) THEN x ELSE default

\* d[k] = v on a dict
SetKey(d, k, v) == (k :> v) @@ d

\* x != 0 in Python: None != 0 is True
NotZero(x) == x # Num(0)

\* a number is falsy when it is 0 (`x if x else None`)
TruthyNum(x) == Truthy(x) /\ x # Num(0)

\* a float as a value that may also be None
Boxed(f) == IF f.raised THEN f ELSE Ok(Num(f.v))

\* float(getattr(x, name, 0)) if hasattr(x, name) else None
FloatIfHas(x) == IF HasAttr(x) THEN Boxed(Float(x)) ELSE Ok(NoneV)

\* float(wd.wd_value_cm) if hasattr(wd, 'wd_value_cm') and wd.wd_value_cm != 0
\* else float(wd.wd_value): the same expression on the single-image, the
\* multi-angle and the WD-only path.
WdValue(wd) ==
    IF HasAttr(wd.wd_value_cm) /\ NotZero(wd.wd_value_cm)
    THEN Float(wd.wd_value_cm)
    ELSE Float(wd.wd_value)

\* float(wd.<width>_cm) if hasattr(wd, '<width>_cm') and wd.<width>_cm != 0
\* else float(wd.<width>), for bizygomatic_width and bigonial_width
WidthValue(cm, px) == IF HasAttr(cm) /\ NotZero(cm) THEN Float(cm) ELSE Float(px)

\* "cm" if hasattr(wd, 'wd_value_cm') and wd.wd_value_cm != 0 else "px"
WdUnits(wd) ==
    IF HasAttr(wd.wd_value_cm) /\ NotZero(wd.wd_value_cm) THEN "cm" ELSE "px"

\* float(wd.demographic_percentile) if hasattr(wd, 'demographic_percentile')
\* and wd.demographic_percentile else 50.0
DataPercentile(wd) ==
    IF HasAttr(wd.demographic_percentile) /\ TruthyNum(wd.demographic_percentile)
    THEN Float(wd.demographic_percentile)
    ELSE Ok(5000)

\* wd_dict["demographic_data"], added when the result has a z-score
DemographicData(wd, z, percentile) ==
    IF HasAttr(wd.normalized_wd_z_score) /\ wd.normalized_wd_z_score # NoneV
    THEN [demographic_data |-> [z_score |-> z.v, percentile |-> percentile.v]]
    ELSE <<>>

\* wd_dict["personality_profile"], added when the result has a profile:
\* getattr(pp, '<trait>_score', getattr(pp, '<trait>', 'N/A')) for the first
\* four traits, getattr(pp, '<trait>', 'N/A') for the others
PersonalityProfile(wd) ==
    IF HasAttr(wd.personality_profile) /\ Truthy(wd.personality_profile)
    THEN LET pp == wd.personality_profile
         IN  [personality_profile |->
                 [social_orientation |->
                      Getattr(pp.social_orientation_score, Getattr(pp.social_orientation, Str("N/A"))),
                  relational_field |->
                      Getattr(pp.relational_field_score, Getattr(pp.relational_field, Str("N/A"))),
                  communication_style |->
                      Getattr(pp.communication_style_score, Getattr(pp.communication_style, Str("N/A"))),
                  leadership |->
                      Getattr(pp.leadership_tendency, Getattr(pp.leadership, Str("N/A"))),
                  interpersonal_effectiveness |-> Getattr(pp.interpersonal_effectiveness, Str("N/A")),
                  emotional_expressiveness |-> Getattr(pp.emotional_expressiveness, Str("N/A")),
                  social_energy_level |-> Getattr(pp.social_energy_level, Str("N/A")),
                  conflict_resolution_style |-> Getattr(pp.conflict_resolution_style, Str("N/A"))]]
    ELSE <<>>

\* wd_dict of analyze_single_image
SingleWd(wd) ==
    LET value == WdValue(wd)
        px == Float(wd.wd_value)
        bz == WidthValue(wd.bizygomatic_width_cm, wd.bizygomatic_width)
        bzpx == Float(wd.bizygomatic_width)
        bg == WidthValue(wd.bigonial_width_cm, wd.bigonial_width)
        bgpx == Float(wd.bigonial_width)
        conf == Float(wd.measurement_confidence)
        pct == FloatIfHas(wd.demographic_percentile)
        hasZ == HasAttr(wd.normalized_wd_z_score) /\ wd.normalized_wd_z_score # NoneV
        z == IF hasZ THEN Float(wd.normalized_wd_z_score) ELSE Ok(0)
        percentile == IF hasZ THEN DataPercentile(wd) ELSE Ok(0)
        bad == FirstRaised(<<value, px, bz, bzpx, bg, bgpx, conf, pct, z, percentile>>)
    IN  IF bad.raised THEN bad
        ELSE Ok(DemographicData(wd, z, percentile) @@ PersonalityProfile(wd) @@
                [wd_value |-> value.v,
                 wd_value_px |-> px.v,
                 classification |-> wd.primary_classification.v,
                 bizygomatic_width |-> bz.v,
                 bizygomatic_width_px |-> bzpx.v,
                 bigonial_width |-> bg.v,
                 bigonial_width_px |-> bgpx.v,
                 confidence |-> Clamp(conf.v),
                 demographic_percentile |-> pct.v,
                 units |-> WdUnits(wd),
                 evidence_level |-> "validated",
                 paper_reference |-> "Lefevre et al. (2012) - fWHR correlations"])

\* fh_dict of analyze_single_image: the confidence is stored as reported
SingleForehead(fh) ==
    LET slant == Float(fh.slant_angle_degrees)
        height == Float(fh.forehead_height)
        conf == Float(fh.measurement_confidence)
        bad == FirstRaised(<<slant, height, conf>>)
        ip == fh.impulsivity_profile
        \* fh_dict["impulsivity_profile"]: getattr(ip, '<dimension>', None)
        impulsivity ==
            IF HasAttr(ip) /\ Truthy(ip)
            THEN [impulsivity_profile |-> [k \in DOMAIN ip |-> Getattr(ip[k], NoneV)]]
            ELSE <<>>
    IN  IF bad.raised THEN bad
        ELSE Ok(impulsivity @@
                [slant_angle |-> slant.v,
                 forehead_height |-> height.v,
                 impulsiveness_level |-> fh.impulsiveness_level.v,
                 confidence |-> conf.v,
                 evidence_level |-> "validated",
                 paper_reference |-> "Guerrero-Apolo et al. (2018) - FID-BIS11 correlation"])

\* morph_dict of analyze_single_image: the confidence is stored as reported
SingleMorphology(morph) ==
    LET index == Float(morph.facial_index)
        ratio == Float(morph.facial_width_height_ratio)
        conf == Float(morph.measurement_confidence)
        bad == FirstRaised(<<index, ratio, conf>>)
        \* morph_dict["shape_confidence"] = float(shape_classification.confidence)
        shape_confidence ==
            IF HasAttr(morph.shape_confidence)
            THEN [shape_confidence |-> morph.shape_confidence.v]
            ELSE <<>>
        probs == morph.shape_probabilities
        secondary == morph.secondary_shapes
        \* the share of the primary shape when the distribution is made from
        \* the secondary shapes, and what is left for them
        primary == IF HasAttr(morph.shape_confidence) THEN morph.shape_confidence.v ELSE 70
        \* morph_dict["shape_probabilities"]: the items in insertion order
        shape_probabilities ==
            IF probs.tag = "list" /\ probs.v # <<>>
            THEN [shape_probabilities |->
                     [i \in DOMAIN probs.v |->
                         [shape |-> probs.v[i][1], probability |-> probs.v[i][2]]]]
            ELSE IF secondary.tag = "list" /\ secondary.v # <<>>
            THEN [shape_probabilities |->
                     <<[shape |-> morph.primary_shape.v, probability |-> primary]>>
                     \o [i \in 1 .. Min(4, Len(secondary.v)) |->
                            [shape |-> secondary.v[i],
                             probability |-> (100 - primary) \div Min(4, Len(secondary.v))]]]
            ELSE <<>>
    IN  IF bad.raised THEN bad
        ELSE Ok(shape_confidence @@ shape_probabilities @@
                [face_shape |-> morph.primary_shape.v,
                 facial_index |-> index.v,
                 width_height_ratio |-> ratio.v,
                 confidence |-> conf.v])

\* getattr(canon, 'canon_name', f'Canon {len(canon_measurements)+1}')
CanonName(canon, measurements) ==
    IF HasAttr(canon.canon_name) THEN canon.canon_name.v
    ELSE "Canon " \o ToString(Cardinality(DOMAIN measurements) + 1)

\* float(canon.deviation_percentage) if hasattr(canon, 'deviation_percentage') else 0
CanonDeviation(canon) ==
    IF HasAttr(canon.deviation_percentage) THEN Float(canon.deviation_percentage) ELSE Ok(0)

\* one entry of canon_measurements in analyze_single_image: within_range is
\* the SDK's own is_valid
SingleCanonEntry(canon) ==
    LET measured == Float(Getattr(canon.measured_ratio, Num(0)))
        deviation == CanonDeviation(canon)
        conf == Float(Getattr(canon.confidence, Num(80)))
        bad == FirstRaised(<<measured, deviation, conf>>)
    IN  IF bad.raised THEN bad
        ELSE Ok([measured_value |-> measured.v,
                 deviation |-> deviation.v,
                 within_range |-> IF HasAttr(canon.is_valid) THEN canon.is_valid.v ELSE FALSE,
                 confidence |-> conf.v])

\* the loop over neo.canons of analyze_single_image
RECURSIVE SingleCanons(_, _)
SingleCanons(canons, measurements) ==
    IF canons = <<>> THEN Ok(measurements)
    ELSE LET canon == Head(canons)
             entry == SingleCanonEntry(canon)
         IN  IF entry.raised THEN entry
             ELSE SingleCanons(Tail(canons),
                               (CanonName(canon, measurements) :> entry.v) @@ measurements)

\* neo_dict of analyze_single_image
SingleNeoclassical(neo) ==
    LET score == IF HasAttr(neo.overall_validity_score)
                 THEN Float(neo.overall_validity_score) ELSE Ok(0)
        conf == IF HasAttr(neo.confidence) THEN Float(neo.confidence) ELSE Ok(0)
        hasCanons == HasAttr(neo.canons) /\ neo.canons.v # <<>>
        measurements == IF hasCanons THEN SingleCanons(neo.canons.v, <<>>) ELSE Ok(<<>>)
        bad == FirstRaised(<<score, conf, measurements>>)
        neo_dict == [overall_score |-> score.v, confidence |-> conf.v]
    IN  IF bad.raised THEN bad
        ELSE IF hasCanons THEN Ok(("canon_measurements" :> measurements.v) @@ neo_dict)
        ELSE Ok(neo_dict)

\* the metadata as it would be with the confidence stored as reported
SingleMetadata_AsReported(meta, mode, flags, elapsed) ==
    LET conf == IF Truthy(meta) THEN Float(meta.overall_confidence) ELSE Ok(0)
    IN  IF conf.raised THEN conf
        ELSE Ok([overall_confidence |-> conf.v,
                 processing_time |-> elapsed,
                 analysis_mode |-> mode,
                 modules_executed |-> flags])
\* results_dict["metadata"] of analyze_single_image
SingleMetadata(meta, mode, flags, elapsed) ==
    LET conf == IF Truthy(meta) THEN Float(meta.overall_confidence) ELSE Ok(0)
    IN  IF conf.raised THEN conf
        ELSE Ok([overall_confidence |-> Clamp(conf.v),
                 processing_time |-> elapsed,
                 analysis_mode |-> mode,
                 modules_executed |-> flags])

\* results_dict while it is built: v is the dict so far, and once a builder
\* has raised nothing more is evaluated and v stays as it was.
Building(d) == [raised |-> FALSE, msg |-> "", v |-> d]

\* an assignment that stores a record of zeros for a module without output
Attach_Defaulted(acc, key, sub) ==
    IF acc.raised THEN acc
    ELSE IF sub.raised THEN [raised |-> TRUE, msg |-> sub.msg, v |-> acc.v]
    ELSE IF sub.v = NoneV THEN [acc EXCEPT !.v = SetKey(@, key, [confidence |-> 0])]
    ELSE [acc EXCEPT !.v = SetKey(@, key, sub.v)]
\* results_dict[key] = sub, where sub is a builder's outcome; a module
\* without output (None) leaves the dict as it is.
Attach(acc, key, sub) ==
    IF acc.raised THEN acc
    ELSE IF sub.raised THEN [raised |-> TRUE, msg |-> sub.msg, v |-> acc.v]
    ELSE IF sub.v = NoneV THEN acc
    ELSE [acc EXCEPT !.v = SetKey(@, key, sub.v)]

\* the results_dict literal of analyze_single_image
SingleResultsDict ==
    [success |-> TRUE, wd_result |-> NoneV, forehead_result |-> NoneV,
     morphology_result |-> NoneV, neoclassical_result |-> NoneV, metadata |-> NoneV]

\* The body of analyze_single_image from "Format results" to "return
\* results_dict": v is results_dict, complete or as far as it was built when
\* something raised.
FormatSingle(result, mode, flags, elapsed) ==
    Attach(
     Attach(
      Attach(
       Attach(
        Attach(Building(SingleResultsDict),
               "wd_result",
               IF Truthy(result.wd_result) THEN SingleWd(result.wd_result) ELSE Ok(NoneV)),
        "forehead_result",
        IF Truthy(result.forehead_result)
        THEN SingleForehead(result.forehead_result) ELSE Ok(NoneV)),
       "morphology_result",
       IF Truthy(result.morphology_result)
       THEN SingleMorphology(result.morphology_result) ELSE Ok(NoneV)),
      "neoclassical_result",
      IF Truthy(result.neoclassical_result)
      THEN SingleNeoclassical(result.neoclassical_result) ELSE Ok(NoneV)),
     "metadata",
     SingleMetadata(result.processing_metadata, mode, flags, elapsed))

\* the record of the `if result is None` branch
NoFaceRecord == [success |-> FALSE, error |-> "No face detected or image unreadable"]

\* Two records the except branch does not build: the no-face record, and
\* results_dict as far as it was built with success turned off.
SingleErrorRecord_Conflated(msg, built) ==
    [success |-> FALSE, error |-> "No face detected or image unreadable"]
SingleErrorRecord_KeepPartial(msg, built) ==
    [k \in DOMAIN built \cup {"success", "error", "traceback"} |->
        IF k = "success" THEN FALSE
        ELSE IF k = "error" THEN "Error during analysis: " \o msg
        ELSE IF k = "traceback" THEN "Traceback (most recent call last): " \o msg
        ELSE built[k]]
\* the record of the `except Exception as e` branch of analyze_single_image
SingleErrorRecord(msg, built) ==
    [success |-> FALSE,
     error |-> "Error during analysis: " \o msg,
     traceback |-> "Traceback (most recent call last): " \o msg]

(***************************************************************************)
(* analyze_multi_angle: the record built from a MultiAngleResult.          *)
(***************************************************************************)


\* float(x) if x else None; reading an attribute the object lacks raises
FloatOrNone(x) ==
    IF x = Missing THEN Raise("AttributeError")
    ELSE IF TruthyNum(x) THEN Boxed(Float(x))
    ELSE Ok(NoneV)

\* results_dict["wd_result"] of analyze_multi_angle
MultiWd(wd) ==
    LET conf == Float(wd.measurement_confidence)
        value == WdValue(wd)
        px == Float(wd.wd_value)
        bz == WidthValue(wd.bizygomatic_width_cm, wd.bizygomatic_width)
        bzpx == Float(wd.bizygomatic_width)
        bg == WidthValue(wd.bigonial_width_cm, wd.bigonial_width)
        bgpx == Float(wd.bigonial_width)
        bad == FirstRaised(<<conf, value, px, bz, bzpx, bg, bgpx>>)
    IN  IF bad.raised THEN bad
        ELSE Ok(PersonalityProfile(wd) @@
                [wd_value |-> value.v,
                 wd_value_px |-> px.v,
                 classification |-> wd.primary_classification.v,
                 bizygomatic_width |-> bz.v,
                 bizygomatic_width_px |-> bzpx.v,
                 bigonial_width |-> bg.v,
                 bigonial_width_px |-> bgpx.v,
                 confidence |-> Clamp(conf.v),
                 units |-> WdUnits(wd)])

\* results_dict["forehead_result"] of analyze_multi_angle
MultiForehead(fh) ==
    LET conf == Float(fh.measurement_confidence)
        slant == Float(fh.slant_angle_degrees)
        height == Float(fh.forehead_height)
        bad == FirstRaised(<<conf, slant, height>>)
    IN  IF bad.raised THEN bad
        ELSE Ok([slant_angle |-> slant.v,
                 forehead_height |-> height.v,
                 impulsiveness_level |-> fh.impulsiveness_level.v,
                 confidence |-> Clamp(conf.v)])

\* results_dict["morphology_result"] of analyze_multi_angle
MultiMorphology(morph) ==
    LET conf == Float(morph.measurement_confidence)
        index == Float(morph.facial_index)
        ratio == Float(morph.facial_width_height_ratio)
        bad == FirstRaised(<<conf, index, ratio>>)
    IN  IF bad.raised THEN bad
        ELSE Ok([face_shape |-> morph.primary_shape.v,
                 facial_index |-> index.v,
                 width_height_ratio |-> ratio.v,
                 confidence |-> Clamp(conf.v)])

\* DEVIATION_THRESHOLD = 10.0, in tenths of a percent
DEVIATION_THRESHOLD == 100

\* is_within_range = abs(deviation) <= DEVIATION_THRESHOLD
IsWithinRange(deviation) == Abs(deviation) <= DEVIATION_THRESHOLD


\* the entry as it would be with the SDK's is_valid for within_range
MultiCanonEntry_SdkValid(canon) ==
    LET deviation == CanonDeviation(canon)
        validity == FloatIfHas(canon.validity_score)
        measured == Float(Getattr(canon.measured_ratio, Num(0)))
        conf == Float(Getattr(canon.confidence, Num(80)))
        expected == FloatIfHas(canon.expected_ratio)
        tolerance == FloatIfHas(canon.acceptable_deviation)
        bad == FirstRaised(<<deviation, validity, measured, conf, expected, tolerance>>)
    IN  IF bad.raised THEN bad
        ELSE Ok([measured_value |-> measured.v,
                 deviation |-> deviation.v,
                 within_range |-> IF HasAttr(canon.is_valid) THEN canon.is_valid.v ELSE FALSE,
                 confidence |-> conf.v,
                 validity_score |-> validity.v,
                 expected_ratio |-> expected.v,
                 acceptable_deviation |-> tolerance.v])
\* one entry of canon_measurements in analyze_multi_angle
MultiCanonEntry(canon) ==
    LET deviation == CanonDeviation(canon)
        validity == FloatIfHas(canon.validity_score)
        measured == Float(Getattr(canon.measured_ratio, Num(0)))
        conf == Float(Getattr(canon.confidence, Num(80)))
        expected == FloatIfHas(canon.expected_ratio)
        tolerance == FloatIfHas(canon.acceptable_deviation)
        bad == FirstRaised(<<deviation, validity, measured, conf, expected, tolerance>>)
    IN  IF bad.raised THEN bad
        ELSE Ok([measured_value |-> measured.v,
                 deviation |-> deviation.v,
                 within_range |-> IsWithinRange(deviation.v),
                 confidence |-> conf.v,
                 validity_score |-> validity.v,
                 expected_ratio |-> expected.v,
                 acceptable_deviation |-> tolerance.v])

\* the loop over neo.canons of analyze_multi_angle
RECURSIVE MultiCanons(_, _)
MultiCanons(canons, measurements) ==
    IF canons = <<>> THEN Ok(measurements)
    ELSE LET canon == Head(canons)
             entry == MultiCanonEntry(canon)
         IN  IF entry.raised THEN entry
             ELSE MultiCanons(Tail(canons),
                              (CanonName(canon, measurements) :> entry.v) @@ measurements)

\* neo_dict of analyze_multi_angle
MultiNeoclassical(neo) ==
    LET score == IF HasAttr(neo.overall_validity_score)
                 THEN Float(neo.overall_validity_score) ELSE Ok(0)
        conf == IF HasAttr(neo.confidence) THEN Float(neo.confidence) ELSE Ok(0)
        hasCanons == HasAttr(neo.canons) /\ neo.canons.v # <<>>
        measurements == IF hasCanons THEN MultiCanons(neo.canons.v, <<>>) ELSE Ok(<<>>)
        bad == FirstRaised(<<score, conf, measurements>>)
        neo_dict == [overall_score |-> score.v, confidence |-> conf.v]
    IN  IF bad.raised THEN bad
        ELSE IF hasCanons THEN Ok(("canon_measurements" :> measurements.v) @@ neo_dict)
        ELSE Ok(neo_dict)

\* results_dict["angle_results"][angle] = ...
SetAngleStatus(d, angle, status) ==
    [d EXCEPT !.angle_results = SetKey(@, angle, [status |-> status])]

\* results_dict["angle_results"][angle] = {"status": ...} once the pass is through
Status(acc, angle, status) ==
    IF acc.raised THEN acc ELSE [acc EXCEPT !.v = SetAngleStatus(@, angle, status)]

\* a pass that takes every module's output from whatever angle carries it
MultiAngleStep_AnyAngle(d, angle, ar) ==
    IF ~Truthy(ar) THEN Status(Building(d), angle, "Failed")
    ELSE
    Status(
     Attach(
      Attach(
       Attach(
        Attach(Building(d),
               "wd_result",
               IF Truthy(ar.wd_result) THEN MultiWd(ar.wd_result) ELSE Ok(NoneV)),
        "forehead_result",
        IF Truthy(ar.forehead_result) THEN MultiForehead(ar.forehead_result) ELSE Ok(NoneV)),
       "morphology_result",
       IF Truthy(ar.morphology_result)
       THEN MultiMorphology(ar.morphology_result) ELSE Ok(NoneV)),
      "neoclassical_result",
      IF Truthy(ar.neoclassical_result)
      THEN MultiNeoclassical(ar.neoclassical_result) ELSE Ok(NoneV)),
     angle, "Success")
\* a pass that reads the attributes of a None angle result
MultiAngleStep_AbortOnNull(d, angle, ar) ==
    IF ~Truthy(ar) THEN [raised |-> TRUE, msg |-> "AttributeError", v |-> d]
    ELSE Status(Building(d), angle, "Success")
\* One pass of `for angle, angle_result in result.angle_results.items()`:
\* v is results_dict after the pass, or as far as it got when it raised.
MultiAngleStep(d, angle, ar) ==
    IF ~Truthy(ar) THEN Status(Building(d), angle, "Failed")
    ELSE
    Status(
     Attach(
      Attach(
       Attach(
        Attach(Building(d),
               "wd_result",
               IF Truthy(ar.wd_result) /\ angle = "frontal"
               THEN MultiWd(ar.wd_result) ELSE Ok(NoneV)),
        "forehead_result",
        IF Truthy(ar.forehead_result) /\ angle = "profile"
        THEN MultiForehead(ar.forehead_result) ELSE Ok(NoneV)),
       "morphology_result",
       IF Truthy(ar.morphology_result) /\ angle = "frontal"
       THEN MultiMorphology(ar.morphology_result) ELSE Ok(NoneV)),
      "neoclassical_result",
      IF Truthy(ar.neoclassical_result) /\ angle = "frontal"
      THEN MultiNeoclassical(ar.neoclassical_result) ELSE Ok(NoneV)),
     angle, "Success")

\* the whole loop, over the items in the order the SDK's mapping yields them
RECURSIVE MultiAngles(_, _)
MultiAngles(acc, items) ==
    IF acc.raised \/ items = <<>> THEN acc
    ELSE MultiAngles(MultiAngleStep(acc.v, Head(items)[1], Head(items)[2]), Tail(items))

\* The body of analyze_multi_angle from "Clamp confidence to valid range"
\* to "return results_dict".  A None result has no combined_confidence.
FormatMulti(result, subject_id, elapsed) ==
    IF result = NoneV THEN [raised |-> TRUE, msg |-> "AttributeError", v |-> <<>>]
    ELSE
    LET conf == FloatOrNone(result.combined_confidence)
        combined_conf == IF conf.v = NoneV THEN NoneV ELSE Num(Clamp(conf.v.v))
        wdv == FloatOrNone(result.combined_wd_value)
        angle == FloatOrNone(result.combined_forehead_angle)
        bad == FirstRaised(<<conf, wdv, angle>>)
        d0 == [success |-> TRUE,
               subject_id |-> subject_id,
               num_angles |-> Len(result.angle_results),
               combined_wd_value |-> wdv.v,
               combined_forehead_angle |-> angle.v,
               combined_face_shape |-> result.combined_face_shape,
               combined_confidence |-> combined_conf,
               angle_results |-> <<>>,
               metadata |-> [processing_time |-> elapsed, analysis_type |-> "multi_angle"]]
    IN  IF bad.raised THEN [raised |-> TRUE, msg |-> bad.msg, v |-> <<>>]
        ELSE MultiAngles(Building(d0), result.angle_results)

\* the record of the `except Exception as e` branch of analyze_multi_angle
MultiErrorRecord(msg, built) ==
    [success |-> FALSE,
     error |-> "Error during multi-angle analysis: " \o msg,
     traceback |-> "Traceback (most recent call last): " \o msg]

(***************************************************************************)
(* What analyze_multiple_angles may return: a MultiAngleResult whose       *)
(* angle_results maps each angle to a result object or to None.  The       *)
(* mapping is a sequence of (angle, result) pairs in the order its items() *)
(* yields them.                                                            *)
(***************************************************************************)
MultiObject(conf, items) ==
    [combined_confidence |-> conf, combined_wd_value |-> Num(390),
     combined_forehead_angle |-> Num(1500), combined_face_shape |-> Str("oval"),
     angle_results |-> items]

FrontalRep == ResultObject(CHOOSE x \in WDRep : TRUE, NoneV, CHOOSE x \in MorphRep : TRUE,
                           CHOOSE x \in NeoRep : TRUE, CHOOSE x \in MetaRep : TRUE)
ProfileRep == ResultObject(NoneV, CHOOSE x \in FHRep : TRUE, NoneV, NoneV,
                           CHOOSE x \in MetaRep : TRUE)
ProfileResults ==
    {ResultObject(NoneV, fh, NoneV, NoneV, NoneV) : fh \in FHFull} \cup {ProfileRep}

\* frontal and profile, as DemoState asks for them, in either order; the
\* frontal result takes all its values with a representative profile, the
\* profile result all its values with a representative frontal.
AngleItems ==
    {<<<<"frontal", f>>, <<"profile", p>>>> :
        f \in {NoneV} \cup ResultSlices, p \in {NoneV, ProfileRep}}
    \cup
    {<<<<"frontal", f>>, <<"profile", p>>>> :
        f \in {NoneV, FrontalRep}, p \in {NoneV} \cup ProfileResults}
    \cup
    {<<<<"profile", p>>, <<"frontal", f>>>> :
        f \in {NoneV, FrontalRep}, p \in {NoneV} \cup ProfileResults}
    \cup
    {<<<<"frontal", f>>>> : f \in {NoneV, FrontalRep}}
    \cup
    {<<>>}
AngleItemsLean ==
    {<<<<"frontal", f>>, <<"profile", p>>>> :
        f \in {FrontalRep}, p \in {NoneV, ProfileRep, ResultObject(NoneV, FHObject(Missing), NoneV, NoneV, NoneV)}}

MultiResults ==
    {MultiObject(Num(65), items) : items \in AngleItems}
    \cup
    {MultiObject(c, items) :
        c \in {NoneV, Num(0), Num(-10), Num(125)}, 
        items \in {<<<<"frontal", FrontalRep>>, <<"profile", ProfileRep>>>>}}
MultiResultsLean == {MultiObject(Num(65), items) : items \in AngleItemsLean}

\* Results that carry the output of every module, whatever the angle: the
\* representative values, and values that differ from them in every module.
FullRep == ResultObject(CHOOSE x \in WDRep : TRUE, CHOOSE x \in FHRep : TRUE,
                        CHOOSE x \in MorphRep : TRUE, CHOOSE x \in NeoRep : TRUE,
                        CHOOSE x \in MetaRep : TRUE)
OtherResult ==
    ResultObject(WDObject(Num(410), Num(15000), Num(-10)), FHObject(Num(-10)),
                 MorphObject(Num(-10)),
                 NeoObject(Num(80), <<CanonObject(Str("Canon B"), Num(95), Flag(FALSE), Num(150))>>),
                 CHOOSE x \in MetaRep : TRUE)
\* the items of a mapping in every order items() may yield them
Orderings(q) ==
    {[i \in 1..Len(q) |-> q[p[i]]] : p \in Permutations(1..Len(q))}
\* frontal, profile and a lateral angle, each carrying every module's output
AngleItemsAllModules ==
    UNION {Orderings(<<<<"frontal", f>>, <<"profile", p>>, <<"lateral_left", l>>>>) :
              f \in {NoneV, FullRep, OtherResult},
              p \in {NoneV, FullRep, OtherResult},
              l \in {FullRep, OtherResult}}
MultiResultsAllModules == {MultiObject(Num(65), items) : items \in AngleItemsAllModules}

(***************************************************************************)
(* Calls and their arguments.                                              *)
(***************************************************************************)
\* the names of the SDK's AnalysisMode, as the docstring lists them
ValidModes == {"FAST", "STANDARD", "THOROUGH", "SCIENTIFIC"}
Modes == ValidModes \cup {"TURBO"}
AllEnabled == [wd |-> TRUE, forehead |-> TRUE, morphology |-> TRUE, neoclassical |-> TRUE]
FlagSets == [{"wd", "forehead", "morphology", "neoclassical"} -> BOOLEAN]

NoCall == [op |-> "none"]
SingleCall(path, mode, flags) ==
    [op |-> "single", image_path |-> path, mode |-> mode, flags |-> flags]
SingleCalls == {SingleCall("frontal.jpg", m, f) : m \in Modes, f \in FlagSets}
DefaultSingleCall == SingleCall("frontal.jpg", "STANDARD", AllEnabled)
\* the call DemoState.analyze makes for an uploaded frontal image
analysis_mode == "THOROUGH"
UploadedFrontalPath == "uploaded_images/demo_frontal_face.jpg"
UploadedProfilePath == "uploaded_images/demo_profile_side.jpg"
UploadedSingleCall == SingleCall(UploadedFrontalPath, analysis_mode, AllEnabled)
\* a known and an unknown mode name
SingleCallsLean == {SingleCall("frontal.jpg", m, AllEnabled) : m \in {"STANDARD", "TURBO"}}

\* What analyze_image may return for a call: None (no face) or a result
\* object.  The full range of result objects is explored for the default
\* arguments in the first call of a run when rich is set, the exit-path
\* representatives otherwise (the record built depends on the result
\* alone); time.time() - start_time is the second component.
AnalyzeImageReturns(c, rich) ==
    IF rich /\ calls = 1 /\ c \in {DefaultSingleCall, UploadedSingleCall}
    THEN (({NoneV} \cup ResultSlices) \X {12}) \cup (ResultsLean \X {0})
    ELSE ({NoneV} \cup ResultsLean) \X {12}

\* image_paths: a list of dicts with 'path' and 'angle_type' keys; a dict
\* may lack a key.
FrontalImage == [path |-> "frontal.jpg", angle_type |-> "frontal"]
ProfileImage == [path |-> "profile.jpg", angle_type |-> "profile"]
MultiCall(images, subject_id) == [op |-> "multi", image_paths |-> images, subject_id |-> subject_id]
DefaultMultiCall == MultiCall(<<FrontalImage, ProfileImage>>, "demo_subject")
MultiCallsLean ==
    {DefaultMultiCall, MultiCall(<<FrontalImage, [path |-> "profile.jpg"]>>, "demo_subject")}
\* the call DemoState.analyze makes when a profile image was uploaded too
UploadedMultiCall ==
    MultiCall(<<[path |-> UploadedFrontalPath, angle_type |-> "frontal"],
                [path |-> UploadedProfilePath, angle_type |-> "profile"]>>, "demo_subject")
LateralImage == [path |-> "left.jpg", angle_type |-> "lateral_left"]
ThreeAngleCall == MultiCall(<<FrontalImage, ProfileImage, LateralImage>>, "subject_001")
MultiCalls ==
    MultiCallsLean \cup
    {ThreeAngleCall,
     MultiCall(<<FrontalImage>>, "subject_001"),
     MultiCall(<<[angle_type |-> "frontal"]>>, "subject_001")}

\* AngleSpecification(angle_type=img_data['angle_type'], image_path=img_data['path'], ...)
\* for every entry: a missing key is a KeyError.
HasKeys(images) ==
    \A i \in DOMAIN images : {"angle_type", "path"} \subseteq DOMAIN images[i]

\* What analyze_multiple_angles may return for a call, with the elapsed time.
AnalyzeMultipleAnglesReturns(c, rich) ==
    IF rich /\ calls = 1 /\ c = ThreeAngleCall
    THEN MultiResultsAllModules \X {12}
    ELSE IF rich /\ calls = 1 /\ c \in {DefaultMultiCall, UploadedMultiCall}
    THEN ((MultiResults \cup {NoneV}) \X {12}) \cup (MultiResultsLean \X {0})
    ELSE (MultiResultsLean \cup {NoneV}) \X {12}

(***************************************************************************)
(* Analyzer handles.                                                       *)
(***************************************************************************)
NewHandle(kind, t) == [kind |-> kind, owner |-> t, log |-> <<>>]
Logged(h, event) == [handles EXCEPT ![h].log = Append(@, event)]
Count(log, event) == Cardinality({i \in DOMAIN log : log[i] = event})
ShutdownCalls(h) == Count(handles[h].log, "shutdown") + Count(handles[h].log, "shutdown_raised")

Init ==
    /\ core_analyzer = 0
    /\ multi_angle_analyzer = 0
    /\ handles = <<>>
    /\ calls = 0
    /\ pc = [t \in Threads |-> "idle"]
    /\ call = [t \in Threads |-> NoCall]
    /\ mine = [t \in Threads |-> 0]
    /\ using = [t \in Threads |-> 0]
    /\ raw = [t \in Threads |-> NotYet]
    /\ exc = [t \in Threads |-> ""]
    /\ partial = [t \in Threads |-> <<>>]
    /\ pending = [t \in Threads |-> NotYet]
    /\ outcome = [t \in Threads |-> "none"]
    /\ ret = [t \in Threads |-> NotYet]
    /\ frontal_image = ""
    /\ frontal_image_path = ""
    /\ profile_image = ""
    /\ profile_image_path = ""
    /\ is_processing = FALSE
    /\ error_message = ""
    /\ results = <<>>
    /\ step = "idle"

\* A thread enters a method of the shared service: the locals of its last
\* call are gone.
Enter(t, c, first) ==
    /\ pc[t] = "idle"
    /\ calls < MaxCalls
    /\ calls' = calls + 1
    /\ pc' = [pc EXCEPT ![t] = first]
    /\ call' = [call EXCEPT ![t] = c]
    /\ mine' = [mine EXCEPT ![t] = 0]
    /\ using' = [using EXCEPT ![t] = 0]
    /\ raw' = [raw EXCEPT ![t] = NotYet]
    /\ exc' = [exc EXCEPT ![t] = ""]
    /\ partial' = [partial EXCEPT ![t] = <<>>]
    /\ pending' = [pending EXCEPT ![t] = NotYet]
    /\ outcome' = [outcome EXCEPT ![t] = "none"]
    /\ ret' = [ret EXCEPT ![t] = NotYet]
    /\ UNCHANGED <<core_analyzer, multi_angle_analyzer, handles>>

\* the try body raises: control goes to the except clause
Raises(t, msg, built, handler) ==
    /\ exc' = [exc EXCEPT ![t] = msg]
    /\ partial' = [partial EXCEPT ![t] = built]
    /\ pc' = [pc EXCEPT ![t] = handler]

\* the try body has formatted its record: `return results_dict`, or the
\* exception that formatting raised
Formatted(t, built, handler, finally) ==
    IF built.raised
    THEN /\ Raises(t, built.msg, built.v, handler)
         /\ UNCHANGED pending
    ELSE /\ pending' = [pending EXCEPT ![t] = built.v]
         /\ pc' = [pc EXCEPT ![t] = finally]
         /\ UNCHANGED <<exc, partial>>

\* an exception leaves the method: the value the body returned is lost
Escapes(t) ==
    /\ outcome' = [outcome EXCEPT ![t] = "raised"]
    /\ pc' = [pc EXCEPT ![t] = "idle"]
    /\ UNCHANGED ret

(***************************************************************************)
(* analyze_single_image, one action per access to the shared service.      *)
(***************************************************************************)
CallSingle(t, rich) ==
    /\ \E c \in (IF rich THEN SingleCalls ELSE SingleCallsLean) : Enter(t, c, "s_construct")
    /\ UNCHANGED demo

\* AnalysisMode[mode], AnalysisConfiguration(...) and
\* self.core_analyzer = CoreAnalyzer(config): an unknown mode name is a
\* KeyError, the constructor may raise, and then nothing is stored.
SingleConstruct(t) ==
    /\ pc[t] = "s_construct"
    /\ \/ /\ call[t].mode \notin ValidModes
          /\ Raises(t, "KeyError", <<>>, "s_except")
          /\ UNCHANGED <<core_analyzer, handles, mine>>
       \/ /\ call[t].mode \in ValidModes
          /\ Raises(t, "RuntimeError", <<>>, "s_except")
          /\ UNCHANGED <<core_analyzer, handles, mine>>
       \/ /\ call[t].mode \in ValidModes
          /\ handles' = Append(handles, NewHandle("core", t))
          /\ core_analyzer' = Len(handles) + 1
          /\ mine' = [mine EXCEPT ![t] = Len(handles) + 1]
          /\ pc' = [pc EXCEPT ![t] = "s_analyze"]
          /\ UNCHANGED <<exc, partial>>
    /\ UNCHANGED <<multi_angle_analyzer, calls, call, using, raw, pending, outcome, ret>>
    /\ UNCHANGED demo

\* self.core_analyzer.analyze_image(image_path): the attribute is read
\* again; None has no analyze_image.
SingleAnalyzeBegin(t) ==
    /\ pc[t] = "s_analyze"
    /\ IF core_analyzer = 0
       THEN /\ Raises(t, "AttributeError", <<>>, "s_except")
            /\ UNCHANGED <<handles, using>>
       ELSE /\ handles' = Logged(core_analyzer, "analyze")
            /\ using' = [using EXCEPT ![t] = core_analyzer]
            /\ pc' = [pc EXCEPT ![t] = "s_analyzing"]
            /\ UNCHANGED <<exc, partial>>
    /\ UNCHANGED <<core_analyzer, multi_angle_analyzer, calls, call, mine, raw, pending,
                   outcome, ret>>
    /\ UNCHANGED demo

\* analyze_image ends: it raises, or returns None or a result object; then
\* `if result is None: return {...}`, else the record is formatted, which
\* may raise.
SingleAnalyzeEnd(t, rich) ==
    /\ pc[t] = "s_analyzing"
    /\ handles' = Logged(using[t], "analyze_done")
    /\ using' = [using EXCEPT ![t] = 0]
    /\ \/ /\ Raises(t, "RuntimeError", <<>>, "s_except")
          /\ UNCHANGED <<raw, pending>>
       \/ \E r \in AnalyzeImageReturns(call[t], rich) :
            /\ raw' = [raw EXCEPT ![t] = r[1]]
            /\ IF r[1] = NoneV
               THEN /\ pending' = [pending EXCEPT ![t] = NoFaceRecord]
                    /\ pc' = [pc EXCEPT ![t] = "s_finally"]
                    /\ UNCHANGED <<exc, partial>>
               ELSE Formatted(t, FormatSingle(r[1], call[t].mode, call[t].flags, r[2]),
                              "s_except", "s_finally")
    /\ UNCHANGED <<core_analyzer, multi_angle_analyzer, calls, call, mine, outcome, ret>>
    /\ UNCHANGED demo

\* except Exception as e: return {"success": False, "error": ..., "traceback": ...}
SingleExcept(t) ==
    /\ pc[t] = "s_except"
    /\ pending' = [pending EXCEPT ![t] = SingleErrorRecord(exc[t], partial[t])]
    /\ pc' = [pc EXCEPT ![t] = "s_finally"]
    /\ UNCHANGED <<core_analyzer, multi_angle_analyzer, handles, calls, call, mine, using,
                   raw, exc, partial, outcome, ret>>
    /\ UNCHANGED demo

\* the release as it would be after the try statement rather than in finally
SingleFinally_OnlyOnSuccess(t) ==
    /\ pc[t] = "s_finally"
    /\ pc' = [pc EXCEPT ![t] = IF core_analyzer # 0 /\ exc[t] = ""
                                THEN "s_shutdown" ELSE "s_return"]
    /\ UNCHANGED <<core_analyzer, multi_angle_analyzer, handles, calls, call, mine, using,
                   raw, exc, partial, pending, outcome, ret>>
    /\ UNCHANGED demo
\* finally: if self.core_analyzer:
SingleFinally(t) ==
    /\ pc[t] = "s_finally"
    /\ pc' = [pc EXCEPT ![t] = IF core_analyzer # 0 THEN "s_shutdown" ELSE "s_return"]
    /\ UNCHANGED <<core_analyzer, multi_angle_analyzer, handles, calls, call, mine, using,
                   raw, exc, partial, pending, outcome, ret>>
    /\ UNCHANGED demo

\* self.core_analyzer.shutdown(): the attribute is read again; shutdown is
\* SDK code and may raise, and an exception in a finally clause leaves the
\* method.
SingleShutdown(t) ==
    /\ pc[t] = "s_shutdown"
    /\ IF core_analyzer = 0
       THEN /\ Escapes(t)
            /\ UNCHANGED handles
       ELSE \/ /\ handles' = Logged(core_analyzer, "shutdown")
               /\ pc' = [pc EXCEPT ![t] = "s_clear"]
               /\ UNCHANGED <<outcome, ret>>
            \/ /\ handles' = Logged(core_analyzer, "shutdown_raised")
               /\ Escapes(t)
    /\ UNCHANGED <<core_analyzer, multi_angle_analyzer, calls, call, mine, using, raw, exc,
                   partial, pending>>
    /\ UNCHANGED demo

\* self.core_analyzer = None
SingleClear(t) ==
    /\ pc[t] = "s_clear"
    /\ core_analyzer' = 0
    /\ pc' = [pc EXCEPT ![t] = "s_return"]
    /\ UNCHANGED <<multi_angle_analyzer, handles, calls, call, mine, using, raw, exc,
                   partial, pending, outcome, ret>>
    /\ UNCHANGED demo

\* the method returns what the try or the except clause gave
SingleReturn(t) ==
    /\ pc[t] = "s_return"
    /\ ret' = [ret EXCEPT ![t] = pending[t]]
    /\ outcome' = [outcome EXCEPT ![t] = "returned"]
    /\ pc' = [pc EXCEPT ![t] = "idle"]
    /\ UNCHANGED <<core_analyzer, multi_angle_analyzer, handles, calls, call, mine, using,
                   raw, exc, partial, pending>>
    /\ UNCHANGED demo

(***************************************************************************)
(* analyze_multi_angle, one action per access to the shared service.       *)
(***************************************************************************)
CallMulti(t, rich) ==
    /\ \E c \in (IF rich THEN MultiCalls ELSE MultiCallsLean) : Enter(t, c, "m_construct")
    /\ UNCHANGED demo

\* self.multi_angle_analyzer = MultiAngleAnalyzer(): the constructor may
\* raise, and then nothing is stored.
MultiConstruct(t) ==
    /\ pc[t] = "m_construct"
    /\ \/ /\ Raises(t, "RuntimeError", <<>>, "m_except")
          /\ UNCHANGED <<multi_angle_analyzer, handles, mine>>
       \/ /\ handles' = Append(handles, NewHandle("multi", t))
          /\ multi_angle_analyzer' = Len(handles) + 1
          /\ mine' = [mine EXCEPT ![t] = Len(handles) + 1]
          /\ pc' = [pc EXCEPT ![t] = "m_analyze"]
          /\ UNCHANGED <<exc, partial>>
    /\ UNCHANGED <<core_analyzer, calls, call, using, raw, pending, outcome, ret>>
    /\ UNCHANGED demo

\* The angle specifications are built, then
\* self.multi_angle_analyzer.analyze_multiple_angles(...) reads the
\* attribute again; None has no analyze_multiple_angles.
MultiAnalyzeBegin(t) ==
    /\ pc[t] = "m_analyze"
    /\ IF ~HasKeys(call[t].image_paths)
       THEN /\ Raises(t, "KeyError", <<>>, "m_except")
            /\ UNCHANGED <<handles, using>>
       ELSE IF multi_angle_analyzer = 0
       THEN /\ Raises(t, "AttributeError", <<>>, "m_except")
            /\ UNCHANGED <<handles, using>>
       ELSE /\ handles' = Logged(multi_angle_analyzer, "analyze")
            /\ using' = [using EXCEPT ![t] = multi_angle_analyzer]
            /\ pc' = [pc EXCEPT ![t] = "m_analyzing"]
            /\ UNCHANGED <<exc, partial>>
    /\ UNCHANGED <<core_analyzer, multi_angle_analyzer, calls, call, mine, raw, pending,
                   outcome, ret>>
    /\ UNCHANGED demo

\* analyze_multiple_angles ends: it raises or returns; then the record is
\* formatted, which may raise.
MultiAnalyzeEnd(t, rich) ==
    /\ pc[t] = "m_analyzing"
    /\ handles' = Logged(using[t], "analyze_done")
    /\ using' = [using EXCEPT ![t] = 0]
    /\ \/ /\ Raises(t, "RuntimeError", <<>>, "m_except")
          /\ UNCHANGED <<raw, pending>>
       \/ \E r \in AnalyzeMultipleAnglesReturns(call[t], rich) :
            /\ raw' = [raw EXCEPT ![t] = r[1]]
            /\ Formatted(t, FormatMulti(r[1], call[t].subject_id, r[2]),
                         "m_except", "m_finally")
    /\ UNCHANGED <<core_analyzer, multi_angle_analyzer, calls, call, mine, outcome, ret>>
    /\ UNCHANGED demo

\* except Exception as e: return {"success": False, "error": ..., "traceback": ...}
MultiExcept(t) ==
    /\ pc[t] = "m_except"
    /\ pending' = [pending EXCEPT ![t] = MultiErrorRecord(exc[t], partial[t])]
    /\ pc' = [pc EXCEPT ![t] = "m_finally"]
    /\ UNCHANGED <<core_analyzer, multi_angle_analyzer, handles, calls, call, mine, using,
                   raw, exc, partial, outcome, ret>>
    /\ UNCHANGED demo

\* finally: if self.multi_angle_analyzer:
MultiFinally(t) ==
    /\ pc[t] = "m_finally"
    /\ pc' = [pc EXCEPT ![t] = IF multi_angle_analyzer # 0 THEN "m_shutdown" ELSE "m_return"]
    /\ UNCHANGED <<core_analyzer, multi_angle_analyzer, handles, calls, call, mine, using,
                   raw, exc, partial, pending, outcome, ret>>
    /\ UNCHANGED demo

\* self.multi_angle_analyzer.shutdown()
MultiShutdown(t) ==
    /\ pc[t] = "m_shutdown"
    /\ IF multi_angle_analyzer = 0
       THEN /\ Escapes(t)
            /\ UNCHANGED handles
       ELSE \/ /\ handles' = Logged(multi_angle_analyzer, "shutdown")
               /\ pc' = [pc EXCEPT ![t] = "m_clear"]
               /\ UNCHANGED <<outcome, ret>>
            \/ /\ handles' = Logged(multi_angle_analyzer, "shutdown_raised")
               /\ Escapes(t)
    /\ UNCHANGED <<core_analyzer, multi_angle_analyzer, calls, call, mine, using, raw, exc,
                   partial, pending>>
    /\ UNCHANGED demo

\* self.multi_angle_analyzer = None
MultiClear(t) ==
    /\ pc[t] = "m_clear"
    /\ multi_angle_analyzer' = 0
    /\ pc' = [pc EXCEPT ![t] = "m_return"]
    /\ UNCHANGED <<core_analyzer, handles, calls, call, mine, using, raw, exc,
                   partial, pending, outcome, ret>>
    /\ UNCHANGED demo

\* the method returns what the try or the except clause gave
MultiReturn(t) ==
    /\ pc[t] = "m_return"
    /\ ret' = [ret EXCEPT ![t] = pending[t]]
    /\ outcome' = [outcome EXCEPT ![t] = "returned"]
    /\ pc' = [pc EXCEPT ![t] = "idle"]
    /\ UNCHANGED <<core_analyzer, multi_angle_analyzer, handles, calls, call, mine, using,
                   raw, exc, partial, pending>>
    /\ UNCHANGED demo

(***************************************************************************)
(* Specifications.                                                         *)
(***************************************************************************)
(* analyze_wd_only: the persistent wd_analyzer is used, nothing is         *)
(* constructed or shut down, and the except clause returns str(e) alone.   *)
(***************************************************************************)
WdOnlyCall == [op |-> "wd_only", image_path |-> "frontal.jpg"]

\* wd_dict of analyze_wd_only: the confidence is stored as reported
WdOnlyRecord(wd) ==
    LET value == WdValue(wd)
        px == Float(wd.wd_value)
        bz == WidthValue(wd.bizygomatic_width_cm, wd.bizygomatic_width)
        bzpx == Float(wd.bizygomatic_width)
        bg == WidthValue(wd.bigonial_width_cm, wd.bigonial_width)
        bgpx == Float(wd.bigonial_width)
        conf == Float(wd.measurement_confidence)
        bad == FirstRaised(<<value, px, bz, bzpx, bg, bgpx, conf>>)
    IN  IF bad.raised THEN [success |-> FALSE, error |-> bad.msg]
        ELSE PersonalityProfile(wd) @@
             [success |-> TRUE,
              wd_value |-> value.v,
              wd_value_px |-> px.v,
              bizygomatic_width |-> bz.v,
              bizygomatic_width_px |-> bzpx.v,
              bigonial_width |-> bg.v,
              bigonial_width_px |-> bgpx.v,
              classification |-> wd.primary_classification.v,
              confidence |-> conf.v,
              units |-> WdUnits(wd)]

\* the body of analyze_wd_only: image is what cv2.imread returned
AnalyzeWdOnly(image, result) ==
    IF image = NoneV THEN [success |-> FALSE, error |-> "Could not load image"]
    ELSE IF ~Truthy(result) THEN [success |-> FALSE, error |-> "Analysis failed"]
    ELSE WdOnlyRecord(result)

\* what wd_analyzer.analyze_image may return
WdOnlyReturns(rich) == {NoneV} \cup (IF rich /\ calls = 1 THEN WDFull ELSE WDRep)

CallWdOnly(t) ==
    /\ Enter(t, WdOnlyCall, "w_run")
    /\ UNCHANGED demo

WdOnlyRun(t, rich) ==
    /\ pc[t] = "w_run"
    /\ \/ /\ ret' = [ret EXCEPT ![t] = AnalyzeWdOnly(NoneV, NoneV)]
          /\ UNCHANGED raw
       \/ \E r \in WdOnlyReturns(rich) :
            /\ raw' = [raw EXCEPT ![t] = r]
            /\ ret' = [ret EXCEPT ![t] = AnalyzeWdOnly(Str("image"), r)]
    /\ outcome' = [outcome EXCEPT ![t] = "returned"]
    /\ pc' = [pc EXCEPT ![t] = "idle"]
    /\ UNCHANGED <<core_analyzer, multi_angle_analyzer, handles, calls, call, mine, using,
                   exc, partial, pending>>
    /\ UNCHANGED demo

WdOnlySteps(t, rich) ==
    \/ CallWdOnly(t)
    \/ WdOnlyRun(t, rich)

(***************************************************************************)
(* DemoState: the event handlers of the demo page.  The events of one      *)
(* client are handled one at a time, analyze from its first statement to   *)
(* its last; its yields show the page the state in between.  The call of   *)
(* the service runs on worker thread 1.                                    *)
(***************************************************************************)
EmptyDict == <<>>
\* bool(d) for a dict
NonEmpty(d) == DOMAIN d # {}

\* handle_frontal_upload: no file, a saved file, or an exception on the way
HandleFrontalUpload ==
    /\ step = "idle"
    /\ \/ UNCHANGED <<frontal_image, frontal_image_path, error_message>>
       \/ /\ frontal_image' = "data:image/jpeg;base64,frontal"
          /\ frontal_image_path' = UploadedFrontalPath
          /\ error_message' = ""
       \/ /\ error_message' = "Failed to upload frontal image: OSError"
          /\ UNCHANGED <<frontal_image, frontal_image_path>>
    /\ UNCHANGED <<profile_image, profile_image_path, is_processing, results, step>>
    /\ UNCHANGED <<core_analyzer, multi_angle_analyzer, handles, calls, pc, call, mine, using,
                   raw, exc, partial, pending, outcome, ret>>

\* handle_profile_upload
HandleProfileUpload ==
    /\ step = "idle"
    /\ \/ UNCHANGED <<profile_image, profile_image_path, error_message>>
       \/ /\ profile_image' = "data:image/jpeg;base64,profile"
          /\ profile_image_path' = UploadedProfilePath
          /\ error_message' = ""
       \/ /\ error_message' = "Failed to upload profile image: OSError"
          /\ UNCHANGED <<profile_image, profile_image_path>>
    /\ UNCHANGED <<frontal_image, frontal_image_path, is_processing, results, step>>
    /\ UNCHANGED <<core_analyzer, multi_angle_analyzer, handles, calls, pc, call, mine, using,
                   raw, exc, partial, pending, outcome, ret>>

\* clear_frontal as it would be if it dropped the stored record with the image
ClearFrontal_DropResults ==
    /\ step = "idle"
    /\ frontal_image' = ""
    /\ frontal_image_path' = ""
    /\ results' = EmptyDict
    /\ UNCHANGED <<profile_image, profile_image_path, is_processing, error_message, step>>
    /\ UNCHANGED <<core_analyzer, multi_angle_analyzer, handles, calls, pc, call, mine, using,
                   raw, exc, partial, pending, outcome, ret>>

ClearFrontal ==
    /\ step = "idle"
    /\ frontal_image' = ""
    /\ frontal_image_path' = ""
    /\ UNCHANGED <<profile_image, profile_image_path, is_processing, error_message, results, step>>
    /\ UNCHANGED <<core_analyzer, multi_angle_analyzer, handles, calls, pc, call, mine, using,
                   raw, exc, partial, pending, outcome, ret>>

ClearProfile ==
    /\ step = "idle"
    /\ profile_image' = ""
    /\ profile_image_path' = ""
    /\ UNCHANGED <<frontal_image, frontal_image_path, is_processing, error_message, results, step>>
    /\ UNCHANGED <<core_analyzer, multi_angle_analyzer, handles, calls, pc, call, mine, using,
                   raw, exc, partial, pending, outcome, ret>>

ClearAll ==
    /\ step = "idle"
    /\ frontal_image' = ""
    /\ frontal_image_path' = ""
    /\ profile_image' = ""
    /\ profile_image_path' = ""
    /\ is_processing' = FALSE
    /\ error_message' = ""
    /\ results' = EmptyDict
    /\ UNCHANGED step
    /\ UNCHANGED <<core_analyzer, multi_angle_analyzer, handles, calls, pc, call, mine, using,
                   raw, exc, partial, pending, outcome, ret>>

\* export_results: a file is written and a download returned, or nothing
\* when there are no results; no field of the state is assigned
ExportResults ==
    /\ step = "idle"
    /\ UNCHANGED demo
    /\ UNCHANGED <<core_analyzer, multi_angle_analyzer, handles, calls, pc, call, mine, using,
                   raw, exc, partial, pending, outcome, ret>>

\* analyze as it would begin without the test of frontal_image_path
AnalyzeBegin_Unchecked ==
    /\ step = "idle"
    /\ calls < MaxCalls
    /\ is_processing' = TRUE
    /\ error_message' = ""
    /\ results' = EmptyDict
    /\ step' = "yielded"
    /\ UNCHANGED <<frontal_image, frontal_image_path, profile_image, profile_image_path>>
    /\ UNCHANGED <<core_analyzer, multi_angle_analyzer, handles, calls, pc, call, mine, using,
                   raw, exc, partial, pending, outcome, ret>>

\* analyze up to its first yield
AnalyzeBegin ==
    /\ step = "idle"
    /\ frontal_image_path = "" \/ calls < MaxCalls
    /\ IF frontal_image_path = ""
       THEN /\ error_message' = "Please upload a frontal image first"
            /\ UNCHANGED <<is_processing, results, step>>
       ELSE /\ is_processing' = TRUE
            /\ error_message' = ""
            /\ results' = EmptyDict
            /\ step' = "yielded"
    /\ UNCHANGED <<frontal_image, frontal_image_path, profile_image, profile_image_path>>
    /\ UNCHANGED <<core_analyzer, multi_angle_analyzer, handles, calls, pc, call, mine, using,
                   raw, exc, partial, pending, outcome, ret>>

\* await asyncio.to_thread(capa_service.analyze_multi_angle, ...) when a
\* profile image is there, else (capa_service.analyze_single_image, ...)
\* analyze as it would call the service without looking at the profile path
AnalyzeCall_SingleOnly ==
    /\ step = "yielded"
    /\ Enter(1, SingleCall(frontal_image_path, analysis_mode, AllEnabled), "s_construct")
    /\ step' = "awaiting"
    /\ UNCHANGED <<frontal_image, frontal_image_path, profile_image, profile_image_path,
                   is_processing, error_message, results>>

AnalyzeCall ==
    /\ step = "yielded"
    /\ IF profile_image_path # ""
       THEN Enter(1, MultiCall(<<[path |-> frontal_image_path, angle_type |-> "frontal"],
                                 [path |-> profile_image_path, angle_type |-> "profile"]>>,
                               "demo_subject"), "m_construct")
       ELSE Enter(1, SingleCall(frontal_image_path, analysis_mode, AllEnabled), "s_construct")
    /\ step' = "awaiting"
    /\ UNCHANGED <<frontal_image, frontal_image_path, profile_image, profile_image_path,
                   is_processing, error_message, results>>

\* analyze as it would end with is_processing reset on the success path only
AnalyzeEnd_ResetOnSuccess ==
    /\ step = "awaiting"
    /\ pc[1] = "idle"
    /\ outcome[1] # "none"
    /\ IF outcome[1] = "raised"
       THEN /\ error_message' = "Analysis failed: RuntimeError"
            /\ UNCHANGED <<results, is_processing>>
       ELSE IF NonEmpty(ret[1])
       THEN /\ results' = ret[1]
            /\ is_processing' = FALSE
            /\ UNCHANGED error_message
       ELSE /\ error_message' = "Analysis returned no results"
            /\ UNCHANGED <<results, is_processing>>
    /\ step' = "idle"
    /\ UNCHANGED <<frontal_image, frontal_image_path, profile_image, profile_image_path>>
    /\ UNCHANGED <<core_analyzer, multi_angle_analyzer, handles, calls, pc, call, mine, using,
                   raw, exc, partial, pending, outcome, ret>>

\* the call is over: `if result:` stores the record, the except clause
\* reports an exception that left the service, and finally ends the run
AnalyzeEnd ==
    /\ step = "awaiting"
    /\ pc[1] = "idle"
    /\ outcome[1] # "none"
    /\ IF outcome[1] = "raised"
       THEN /\ error_message' = "Analysis failed: RuntimeError"
            /\ UNCHANGED results
       ELSE IF NonEmpty(ret[1])
       THEN /\ results' = ret[1]
            /\ UNCHANGED error_message
       ELSE /\ error_message' = "Analysis returned no results"
            /\ UNCHANGED results
    /\ is_processing' = FALSE
    /\ step' = "idle"
    /\ UNCHANGED <<frontal_image, frontal_image_path, profile_image, profile_image_path>>
    /\ UNCHANGED <<core_analyzer, multi_angle_analyzer, handles, calls, pc, call, mine, using,
                   raw, exc, partial, pending, outcome, ret>>

\* the service at work for the run: every step of a call but its entry
ServiceSteps(t, rich) ==
    \/ SingleConstruct(t)
    \/ SingleAnalyzeBegin(t)
    \/ SingleAnalyzeEnd(t, rich)
    \/ SingleExcept(t)
    \/ SingleFinally(t)
    \/ SingleShutdown(t)
    \/ SingleClear(t)
    \/ SingleReturn(t)
    \/ MultiConstruct(t)
    \/ MultiAnalyzeBegin(t)
    \/ MultiAnalyzeEnd(t, rich)
    \/ MultiExcept(t)
    \/ MultiFinally(t)
    \/ MultiShutdown(t)
    \/ MultiClear(t)
    \/ MultiReturn(t)

(***************************************************************************)
SingleSteps(t, rich) ==
    \/ CallSingle(t, rich)
    \/ SingleConstruct(t)
    \/ SingleAnalyzeBegin(t)
    \/ SingleAnalyzeEnd(t, rich)
    \/ SingleExcept(t)
    \/ SingleFinally(t)
    \/ SingleShutdown(t)
    \/ SingleClear(t)
    \/ SingleReturn(t)

MultiSteps(t, rich) ==
    \/ CallMulti(t, rich)
    \/ MultiConstruct(t)
    \/ MultiAnalyzeBegin(t)
    \/ MultiAnalyzeEnd(t, rich)
    \/ MultiExcept(t)
    \/ MultiFinally(t)
    \/ MultiShutdown(t)
    \/ MultiClear(t)
    \/ MultiReturn(t)

\* Two worker threads call the shared service and interleave at every
\* access to it.
Next == \E t \in Threads : SingleSteps(t, FALSE) \/ MultiSteps(t, FALSE) \/ WdOnlySteps(t, FALSE)
Spec == Init /\ [][Next]_vars

\* One caller: the calls are made one at a time.
NextSeq == SingleSteps(1, TRUE) \/ MultiSteps(1, TRUE) \/ WdOnlySteps(1, TRUE)
SpecSeq == Init /\ [][NextSeq]_vars

\* One client of the demo page.
NextDemo ==
    \/ HandleFrontalUpload
    \/ HandleProfileUpload
    \/ ClearFrontal
    \/ ClearProfile
    \/ ClearAll
    \/ ExportResults
    \/ AnalyzeBegin
    \/ AnalyzeCall
    \/ AnalyzeEnd
    \/ ServiceSteps(1, TRUE)
SpecDemo == Init /\ [][NextDemo]_vars

\* One client of the demo page, the service handing back the results that
\* tell the exit paths of a call apart: how a run ends does not depend on
\* the numbers in the record.
NextDemoLean ==
    \/ HandleFrontalUpload
    \/ HandleProfileUpload
    \/ ClearFrontal
    \/ ClearProfile
    \/ ClearAll
    \/ ExportResults
    \/ AnalyzeBegin
    \/ AnalyzeCall
    \/ AnalyzeEnd
    \/ ServiceSteps(1, FALSE)

\* A run that has begun goes on: the event loop resumes the handler after
\* each yield, and the worker thread started by asyncio.to_thread runs the
\* service call to its end.
SpecDemoFair ==
    /\ Init
    /\ [][NextDemoLean]_vars
    /\ WF_vars(AnalyzeCall)
    /\ WF_vars(ServiceSteps(1, FALSE))
    /\ WF_vars(AnalyzeEnd)

\* the analyze button is enabled
can_analyze == frontal_image_path # "" /\ ~is_processing

(***************************************************************************)
(* Properties.                                                             *)
(***************************************************************************)
Done(t) == pc[t] = "idle" /\ outcome[t] # "none"
Returned(t) == pc[t] = "idle" /\ outcome[t] = "returned"
Log(h) == handles[h].log
ShutdownNeverRaised == \A h \in DOMAIN handles : Count(Log(h), "shutdown_raised") = 0
\* the handle was shut down exactly once, and nothing was done with it afterwards
ReleasedOnce(h) ==
    /\ Count(Log(h), "shutdown") = 1
    /\ Count(Log(h), "shutdown_raised") = 0
    /\ Log(h)[Len(Log(h))] = "shutdown"

\* shutdown was called on the handle exactly once, as the last thing done with it
ShutDownLast(h) ==
    /\ ShutdownCalls(h) = 1
    /\ Log(h)[Len(Log(h))] \in {"shutdown", "shutdown_raised"}

\* C1: with the calls made one at a time, a call that has ended has called
\* shutdown exactly once on the analyzer it constructed, after its analyze
\* operation, and a call that returned (on the null result, the success or
\* the caught-exception path) has shut it down before returning; when every
\* call so far ended on one of these paths, no handle is open and the
\* service stores none.
C1_ReleasedExactlyOnce ==
    /\ \A t \in Threads :
          (Done(t) /\ mine[t] # 0) => ShutDownLast(mine[t])
    /\ \A t \in Threads :
          (Returned(t) /\ mine[t] # 0) => ReleasedOnce(mine[t])
    /\ ((\A t \in Threads : pc[t] = "idle") /\ ShutdownNeverRaised) =>
          /\ \A h \in DOMAIN handles : ReleasedOnce(h)
          /\ core_analyzer = 0
          /\ multi_angle_analyzer = 0

\* C1 witness: the second call of a run returned on the exception path after
\* it had constructed and used its analyzer.
C1_Witness ==
    /\ calls = 2
    /\ Returned(1)
    /\ mine[1] = 2
    /\ exc[1] # ""
    /\ Count(Log(2), "analyze_done") = 1
    /\ ShutdownNeverRaised

\* C2: with two invocations running concurrently, no invocation returns
\* while the handle it constructed is still open, no handle is shut down
\* while an invocation is inside its analyze operation, and no handle is
\* shut down twice (stated for runs in which the SDK's shutdown itself
\* never fails).
C2_EachOwnsItsHandle ==
    ShutdownNeverRaised =>
        /\ \A t \in Threads : (Done(t) /\ mine[t] # 0) => Count(Log(mine[t]), "shutdown") >= 1
        /\ \A t \in Threads : using[t] # 0 => Count(Log(using[t]), "shutdown") = 0
        /\ \A h \in DOMAIN handles : Count(Log(h), "shutdown") <= 1

\* C3: no exception leaves analyze_single_image or analyze_multi_angle: a
\* call ends by returning a record with a boolean success, and with an
\* error string when success is false.
C3_NeverRaises ==
    \A t \in Threads :
        Done(t) =>
            /\ outcome[t] = "returned"
            /\ ret[t].success \in BOOLEAN
            /\ (~ret[t].success => "error" \in DOMAIN ret[t])

\* C4: a call of analyze_single_image that returns a record returns
\* exactly {success: False, error: "No face detected or image unreadable"}
\* if and only if the SDK's analyze operation returned None, whatever the
\* mode and the module flags.
C4_NoFaceRecord ==
    \A t \in Threads :
        (Returned(t) /\ call[t].op = "single") =>
            /\ (raw[t] = NoneV) =>
                    /\ DOMAIN ret[t] = {"success", "error"}
                    /\ ret[t].success = FALSE
                    /\ ret[t].error = "No face detected or image unreadable"
            /\ (DOMAIN ret[t] = {"success", "error"}) => raw[t] = NoneV
            /\ (ret[t].success = FALSE /\ ret[t].error = "No face detected or image unreadable")
                    => raw[t] = NoneV

\* C4 witness: a null result under a mode and flags other than the defaults
C4_Witness ==
    /\ Returned(1)
    /\ call[1].op = "single"
    /\ call[1].mode = "FAST"
    /\ ~call[1].flags.wd /\ call[1].flags.forehead
    /\ raw[1] = NoneV

\* C5: when the try body of analyze_single_image or analyze_multi_angle
\* raised, the record the call returns has exactly success=False, the error
\* message and the traceback, nothing of what was built before, and the
\* analyzer the call constructed has been shut down, once.
C5_FailureRecord ==
    \A t \in Threads :
        /\ (Done(t) /\ exc[t] # "" /\ mine[t] # 0) => ShutDownLast(mine[t])
        /\ (Returned(t) /\ exc[t] # "") =>
              /\ DOMAIN ret[t] = {"success", "error", "traceback"}
              /\ ret[t].success = FALSE
              /\ ret[t].error =
                   (IF call[t].op = "single" THEN "Error during analysis: "
                    ELSE "Error during multi-angle analysis: ") \o exc[t]
              /\ mine[t] # 0 => ReleasedOnce(mine[t])

\* C5 witness: the forehead object made the body raise after the WD record
\* had been built
C5_Witness ==
    /\ Returned(1)
    /\ exc[1] = "AttributeError"
    /\ mine[1] # 0
    /\ "wd_result" \in DOMAIN partial[1]
    /\ partial[1].wd_result # NoneV
\* the record has a sub-record under key k
HasSub(rec, k) == k \in DOMAIN rec /\ rec[k] # NoneV
\* the call got a result object from the SDK
GotResult(t) == raw[t] # NotYet /\ raw[t] # NoneV
\* the (angle, result) pairs of a multi-angle result whose angle is frontal
\* and whose result is not None
FrontalResults(t) ==
    {raw[t].angle_results[i][2] : i \in {j \in DOMAIN raw[t].angle_results :
        /\ raw[t].angle_results[j][1] = "frontal"
        /\ Truthy(raw[t].angle_results[j][2])}}

\* the angles of a multi-angle result and what the SDK returned for each
Angles(t) == {raw[t].angle_results[i][1] : i \in DOMAIN raw[t].angle_results}
AngleResult(t, angle) ==
    raw[t].angle_results[CHOOSE i \in DOMAIN raw[t].angle_results :
                             raw[t].angle_results[i][1] = angle][2]

\* C6: in every success record of analyze_single_image and of
\* analyze_multi_angle the WD, forehead and morphology confidences lie in
\* [0, 1] (0..100 in hundredths).
C6_ConfidencesClamped ==
    \A t \in Threads :
        (Returned(t) /\ call[t].op \in {"single", "multi"} /\ ret[t].success) =>
            \A k \in {"wd_result", "forehead_result", "morphology_result"} :
                HasSub(ret[t], k) =>
                    (ret[t][k].confidence >= 0 /\ ret[t][k].confidence <= 100)

\* the value and the unit the reconciliation is to store for a WD object
WdExpected(wd) ==
    IF HasAttr(wd.wd_value_cm) /\ wd.wd_value_cm # NoneV /\ wd.wd_value_cm # Num(0)
    THEN <<wd.wd_value_cm.v, "cm">>
    ELSE <<wd.wd_value.v, "px">>
WdStored(rec, wd) ==
    /\ HasSub(rec, "wd_result")
    /\ <<rec.wd_result.wd_value, rec.wd_result.units>> = WdExpected(wd)
    /\ ~(rec.wd_result.wd_value = 0 /\ rec.wd_result.units = "cm")
\* a result object that carries the WD module's output and no other module's
WdAlone(r) ==
    /\ Truthy(r.wd_result)
    /\ r.forehead_result = NoneV
    /\ r.morphology_result = NoneV
    /\ r.neoclassical_result = NoneV

\* C7: on the single-image, the multi-angle and the WD-only path the WD
\* value stored is the centimeter value with unit "cm" when that is present
\* and not 0, and the pixel value with unit "px" when the centimeter value
\* is 0, None or absent; a result that carries only a WD object yields a
\* success record.
C7_WdValueAndUnits ==
    \A t \in Threads :
        (Returned(t) /\ GotResult(t)) =>
            /\ (call[t].op = "single" /\ Truthy(raw[t].wd_result)) =>
                  /\ ret[t].success => WdStored(ret[t], raw[t].wd_result)
                  /\ WdAlone(raw[t]) => ret[t].success
            /\ (call[t].op = "multi") =>
                  \A f \in FrontalResults(t) :
                      Truthy(f.wd_result) =>
                          /\ ret[t].success => WdStored(ret[t], f.wd_result)
                          /\ (WdAlone(f) /\ \A a \in Angles(t) \ {"frontal"} :
                                              AngleResult(t, a) = NoneV) => ret[t].success
            /\ (call[t].op = "wd_only") =>
                  /\ ret[t].success
                  /\ <<ret[t].wd_value, ret[t].units>> = WdExpected(raw[t])

\* the deviation the service reads from a canon object
InputDeviation(canon) ==
    IF HasAttr(canon.deviation_percentage) THEN canon.deviation_percentage.v ELSE 0
\* every canon entry of the record has within_range = (|deviation| <= 10.0)
CanonsByThreshold(rec) ==
    (HasSub(rec, "neoclassical_result") /\ "canon_measurements" \in DOMAIN rec.neoclassical_result) =>
        \A name \in DOMAIN rec.neoclassical_result.canon_measurements :
            LET entry == rec.neoclassical_result.canon_measurements[name]
            IN  entry.within_range = (Abs(entry.deviation) <= 100)
\* every canon entry of the record carries the deviation of a canon of neo
\* (0 when the canon has none)
CanonsFromInput(rec, neo) ==
    /\ HasSub(rec, "neoclassical_result")
    /\ "canon_measurements" \in DOMAIN rec.neoclassical_result
    /\ \A name \in DOMAIN rec.neoclassical_result.canon_measurements :
           \E i \in DOMAIN neo.canons.v :
               rec.neoclassical_result.canon_measurements[name].deviation =
                   InputDeviation(neo.canons.v[i])

\* C8: in a success record of analyze_multi_angle every canon entry carries
\* the deviation of a canon of the frontal result (0 when absent) and has
\* within_range = (|deviation| <= 10.0), whatever is_valid, validity_score
\* and acceptable_deviation say.
C8_MultiAngleThreshold ==
    \A t \in Threads :
        (Returned(t) /\ call[t].op = "multi" /\ ret[t].success) =>
            /\ CanonsByThreshold(ret[t])
            /\ \A f \in FrontalResults(t) :
                  (Truthy(f.neoclassical_result) /\ f.neoclassical_result.canons.v # <<>>) =>
                      CanonsFromInput(ret[t], f.neoclassical_result)

\* C8 witness: a canon 38.6 % off that the SDK marked valid is out of range
C8_Witness ==
    /\ Returned(1)
    /\ call[1].op = "multi"
    /\ ret[1].success
    /\ \E f \in FrontalResults(1) :
          /\ Truthy(f.neoclassical_result)
          /\ f.neoclassical_result.canons.v # <<>>
          /\ f.neoclassical_result.canons.v[1].deviation_percentage = Num(386)
          /\ f.neoclassical_result.canons.v[1].is_valid = Flag(TRUE)
    /\ HasSub(ret[1], "neoclassical_result")
    /\ \E name \in DOMAIN ret[1].neoclassical_result.canon_measurements :
          /\ ret[1].neoclassical_result.canon_measurements[name].deviation = 386
          /\ ~ret[1].neoclassical_result.canon_measurements[name].within_range

\* C9: in every success record, of analyze_single_image as of
\* analyze_multi_angle, every canon entry has
\* within_range = (|deviation| <= 10.0).
C9_ThresholdOnBothPaths ==
    \A t \in Threads :
        (Returned(t) /\ call[t].op \in {"single", "multi"} /\ ret[t].success) =>
            CanonsByThreshold(ret[t])

\* handling this angle on its own raises
AngleRaises(angle, ar) == MultiAngleStep([angle_results |-> <<>>], angle, ar).raised

\* C10: a success record of analyze_multi_angle has one angle_results entry
\* per angle of the SDK's mapping, with status "Failed" exactly when the
\* SDK's result for the angle is None and "Success" otherwise; a None
\* profile leaves no forehead sub-record; and when no angle with a result
\* raises, the record is a success record whatever angles are None.
C10_AngleStatuses ==
    \A t \in Threads :
        (Returned(t) /\ call[t].op = "multi" /\ GotResult(t)) =>
            /\ ret[t].success =>
                  /\ DOMAIN ret[t].angle_results = Angles(t)
                  /\ \A a \in Angles(t) :
                        ret[t].angle_results[a] =
                            [status |-> IF AngleResult(t, a) = NoneV THEN "Failed" ELSE "Success"]
                  /\ ("profile" \in Angles(t) /\ AngleResult(t, "profile") = NoneV) =>
                        ~HasSub(ret[t], "forehead_result")
                  /\ ("frontal" \in Angles(t) /\ AngleResult(t, "frontal") = NoneV) =>
                        /\ ~HasSub(ret[t], "wd_result")
                        /\ ~HasSub(ret[t], "morphology_result")
                        /\ ~HasSub(ret[t], "neoclassical_result")
            /\ (\A a \in Angles(t) :
                    AngleResult(t, a) # NoneV => ~AngleRaises(a, AngleResult(t, a)))
                  => ret[t].success

\* C10 witness: the frontal angle succeeded and the profile angle is None
C10_Witness ==
    /\ Returned(1)
    /\ call[1].op = "multi"
    /\ GotResult(1)
    /\ ret[1].success
    /\ Angles(1) = {"frontal", "profile"}
    /\ AngleResult(1, "frontal") # NoneV
    /\ AngleResult(1, "profile") = NoneV
    /\ ret[1].angle_results["profile"].status = "Failed"
    /\ ret[1].angle_results["frontal"].status = "Success"
    /\ HasSub(ret[1], "wd_result")
\* what the SDK attached to an angle for a module: None when the angle is
\* not in the mapping or its result is None
ModuleFrom(t, angle, key) ==
    IF angle \in Angles(t) /\ Truthy(AngleResult(t, angle))
    THEN AngleResult(t, angle)[key] ELSE NoneV
\* the record has the sub-record under key exactly when the module has
\* output on the angle, and it is built from that output
TakenFrom(t, key, angle, built) ==
    /\ HasSub(ret[t], key) <=> Truthy(ModuleFrom(t, angle, key))
    /\ HasSub(ret[t], key) => ret[t][key] = built.v
RECURSIVE Reverse(_)
Reverse(q) == IF q = <<>> THEN <<>> ELSE Append(Reverse(Tail(q)), Head(q))

\* C11: in a success record of analyze_multi_angle, wd_result,
\* morphology_result and neoclassical_result are present exactly when the
\* frontal angle carries that output and are built from it, forehead_result
\* exactly when the profile angle carries forehead output and is built from
\* it; and the record is the one the angles visited in the reverse order
\* give.
C11_ModulesByAngle ==
    \A t \in Threads :
        (Returned(t) /\ call[t].op = "multi" /\ GotResult(t) /\ ret[t].success) =>
            /\ TakenFrom(t, "wd_result", "frontal",
                         MultiWd(ModuleFrom(t, "frontal", "wd_result")))
            /\ TakenFrom(t, "morphology_result", "frontal",
                         MultiMorphology(ModuleFrom(t, "frontal", "morphology_result")))
            /\ TakenFrom(t, "neoclassical_result", "frontal",
                         MultiNeoclassical(ModuleFrom(t, "frontal", "neoclassical_result")))
            /\ TakenFrom(t, "forehead_result", "profile",
                         MultiForehead(ModuleFrom(t, "profile", "forehead_result")))
            /\ ret[t] = FormatMulti([raw[t] EXCEPT !.angle_results = Reverse(@)],
                                    call[t].subject_id, ret[t].metadata.processing_time).v

\* C11 witness: the profile and a lateral angle carry WD output that differs
\* from the frontal angle's, the frontal angle carries forehead output that
\* differs from the profile's, and the lateral angle is visited last
C11_Witness ==
    /\ Returned(1)
    /\ call[1] = ThreeAngleCall
    /\ GotResult(1)
    /\ ret[1].success
    /\ raw[1].angle_results[3] = <<"lateral_left", OtherResult>>
    /\ AngleResult(1, "frontal") = FullRep
    /\ AngleResult(1, "profile") = OtherResult
    /\ ret[1].wd_result.wd_value = 390
    /\ ret[1].forehead_result.confidence = 0
\* a value in hundredths brought into [0, 1]
InUnit(x) == IF x < 0 THEN 0 ELSE IF x > 100 THEN 100 ELSE x

\* C12: a success record of analyze_multi_angle stores the SDK's combined
\* confidence brought into [0, 1] whenever the result carries a number, a
\* raw 0 included, and None only when the result carries None.
C12_CombinedConfidence ==
    \A t \in Threads :
        (Returned(t) /\ call[t].op = "multi" /\ GotResult(t) /\ ret[t].success) =>
            ret[t].combined_confidence =
                (IF raw[t].combined_confidence = NoneV THEN NoneV
                 ELSE Num(InUnit(raw[t].combined_confidence.v)))
\* C13: every success record of analyze_single_image has a metadata
\* sub-record whose overall_confidence is the processing metadata's overall
\* confidence brought into [0, 1], and 0.0 when the result has no
\* processing metadata.
C13_MetadataConfidence ==
    \A t \in Threads :
        (Returned(t) /\ call[t].op = "single" /\ GotResult(t) /\ ret[t].success) =>
            /\ HasSub(ret[t], "metadata")
            /\ ret[t].metadata.overall_confidence =
                  (IF raw[t].processing_metadata = NoneV THEN 0
                   ELSE InUnit(raw[t].processing_metadata.overall_confidence.v))

\* C13 witness: the SDK reported an overall confidence of 1.25
C13_Witness ==
    /\ Returned(1)
    /\ call[1].op = "single"
    /\ GotResult(1)
    /\ ret[1].success
    /\ raw[1].processing_metadata # NoneV
    /\ raw[1].processing_metadata.overall_confidence = Num(125)
    /\ ret[1].metadata.overall_confidence = 100
Modules == {"wd_result", "forehead_result", "morphology_result", "neoclassical_result"}

\* C14: in every success record of analyze_single_image each of the four
\* module keys is there, with a sub-record exactly when the SDK result
\* carries that module's output and None otherwise.
C14_SubRecordsByOutput ==
    \A t \in Threads :
        (Returned(t) /\ call[t].op = "single" /\ GotResult(t) /\ ret[t].success) =>
            \A k \in Modules :
                /\ k \in DOMAIN ret[t]
                /\ (ret[t][k] # NoneV) <=> (raw[t][k] # NoneV)

\* C14 witness: WD and morphology have output, forehead and canons have none
C14_Witness ==
    /\ Returned(1)
    /\ call[1].op = "single"
    /\ GotResult(1)
    /\ ret[1].success
    /\ raw[1].wd_result # NoneV /\ ret[1].wd_result # NoneV
    /\ raw[1].forehead_result = NoneV /\ ret[1].forehead_result = NoneV
    /\ raw[1].morphology_result # NoneV /\ ret[1].morphology_result # NoneV
    /\ raw[1].neoclassical_result = NoneV /\ ret[1].neoclassical_result = NoneV

(***************************************************************************)
(* What the demo page draws from the state.                                *)
(***************************************************************************)
\* DemoState.analysis_error
analysis_error ==
    IF NonEmpty(results) /\ "error" \in DOMAIN results THEN results.error ELSE error_message
\* the text of the error alert of demo_page, "" when the alert is not drawn:
\* rx.cond(DemoState.error_message != "", error_alert(DemoState.error_message))
ErrorAlert == IF error_message # "" THEN error_message ELSE ""
\* `self.results and self.results.get(key)`, and `self.results.get(key) is
\* not None`: no record stores 0, "" or {} under a key that is tested so
Has(key) == NonEmpty(results) /\ key \in DOMAIN results /\ results[key] # NoneV
\* DemoState.demographic_percentile_value
demographic_percentile_value ==
    IF ~Has("wd_result") THEN 5000
    ELSE IF "demographic_data" \in DOMAIN results.wd_result
    THEN results.wd_result.demographic_data.percentile
    ELSE IF /\ "demographic_percentile" \in DOMAIN results.wd_result
            /\ results.wd_result.demographic_percentile # NoneV
    THEN results.wd_result.demographic_percentile.v
    ELSE 5000

(***************************************************************************)
(* The computed vars of DemoState.  Each is evaluated on results as Python *)
(* evaluates it: Ok(value), or the exception a None where a number or a    *)
(* dict is needed would raise.  Displayed values are tagged: Str, Num,     *)
(* Flag, List, a formatted number ("text") or a figure.  Numbers are in     *)
(* hundredths, so that f"{conf * 100:.1f}%" shows the stored number.       *)
(***************************************************************************)
\* _trait_to_numeric as it would be without the clamp of a number
TraitToNumeric_Unclamped(value) ==
    IF value.tag = "num" THEN value.v
    ELSE IF value.tag # "str" THEN 50
    ELSE IF value.v = "Very High" THEN 90
    ELSE IF value.v = "High" THEN 70
    ELSE IF value.v = "Moderate" THEN 50
    ELSE IF value.v = "Low" THEN 30
    ELSE IF value.v = "Very Low" THEN 10
    ELSE IF value.v = "N/A" THEN 0
    ELSE 50
\* _trait_to_numeric: a number is clamped to [0, 1]; anything else is looked
\* up by its str() in trait_map, 0.5 when it is not there (str(None) is not)
TraitToNumeric(value) ==
    IF value.tag = "num" THEN Min(100, Max(0, value.v))
    ELSE IF value.tag # "str" THEN 50
    ELSE IF value.v = "Very High" THEN 90
    ELSE IF value.v = "High" THEN 70
    ELSE IF value.v = "Moderate" THEN 50
    ELSE IF value.v = "Low" THEN 30
    ELSE IF value.v = "Very Low" THEN 10
    ELSE IF value.v = "N/A" THEN 0
    ELSE 50
\* sorted(probs.items(), key=lambda x: x[1], reverse=True): the sort is
\* stable, so that items of equal probability keep their order
RECURSIVE SortedDescending(_)
SortedDescending(items) ==
    IF items = <<>> THEN <<>>
    ELSE LET rest == SortedDescending(Tail(items))
             above == Cardinality({i \in DOMAIN rest :
                                     rest[i].probability > Head(items).probability})
         IN  SubSeq(rest, 1, above) \o <<Head(items)>> \o SubSeq(rest, above + 1, Len(rest))
\* str.lower() on the level names that occur
Lower(x) == IF x = "HIGH" THEN "high" ELSE x
\* level_map.get(str(level).lower(), ...) with 1.0 as the default
BaseValue_DefaultOne(level) ==
    LET level_map == [very_low |-> 10, low |-> 30, moderate |-> 50, high |-> 70, very_high |-> 90]
    IN  IF Lower(level) \in DOMAIN level_map THEN level_map[Lower(level)] ELSE 100
\* base_val = level_map.get(str(level).lower(), 0.5), in hundredths
BaseValue(level) ==
    LET level_map == [very_low |-> 10, low |-> 30, moderate |-> 50, high |-> 70, very_high |-> 90]
    IN  IF Lower(level) \in DOMAIN level_map THEN level_map[Lower(level)] ELSE 50
\* the canon measurements of a neoclassical record, none when it has no canons
CanonMeasurements(neo) ==
    IF "canon_measurements" \in DOMAIN neo THEN neo.canon_measurements ELSE <<>>
\* d.get(k, default) for a numeric field of a sub-record
Field(d, k, default) == IF k \in DOMAIN d THEN Num(d[k]) ELSE default
\* `x or 0` as it would be without the `or 0`
OrZero_AsStored(x) == x
\* `x or 0`
OrZero(x) == IF TruthyNum(x) THEN x ELSE Num(0)
\* f"{x:<spec>}<suffix>": formatting None is a TypeError
FormatSpec(x, spec, suffix) ==
    IF x.tag = "num" THEN Ok([tag |-> "text", v |-> x.v, spec |-> spec, suffix |-> suffix])
    ELSE Raise("TypeError")
\* max(0.0, min(1.0, x)): comparing None with a float is a TypeError
ClampValue(x) == IF x.tag = "num" THEN Ok(Num(Clamp(x.v))) ELSE Raise("TypeError")
\* f"{conf * 100:.1f}%" as it would be without the clamp before it
PercentText_Unclamped(x) == FormatSpec(x, ".1f", "%")
\* conf = max(0.0, min(1.0, conf)); return f"{conf * 100:.1f}%"
PercentText(x) ==
    IF ClampValue(x).raised THEN ClampValue(x) ELSE FormatSpec(ClampValue(x).v, ".1f", "%")
\* wd_confidence, forehead_confidence, morphology_confidence: the same body
\* for the sub-record under key
ConfidenceText(key) ==
    IF ~NonEmpty(results) THEN Ok(Str("N/A"))
    ELSE IF Has(key) THEN PercentText(Field(results[key], "confidence", Num(0)))
    ELSE IF "combined_confidence" \in DOMAIN results
    THEN PercentText(OrZero(results.combined_confidence))
    ELSE Ok(Str("N/A"))
\* the confidence value as it would be returned without the clamp
ConfidenceValue_Unclamped(key) ==
    IF ~NonEmpty(results) THEN Ok(Num(0))
    ELSE IF Has(key) THEN Ok(Field(results[key], "confidence", Num(0)))
    ELSE IF "combined_confidence" \in DOMAIN results
    THEN Ok(OrZero(results.combined_confidence))
    ELSE Ok(Num(0))
\* wd_confidence_value, forehead_confidence_value, morphology_confidence_value
ConfidenceValue(key) ==
    IF ~NonEmpty(results) THEN Ok(Num(0))
    ELSE IF Has(key) THEN ClampValue(Field(results[key], "confidence", Num(0)))
    ELSE IF "combined_confidence" \in DOMAIN results
    THEN ClampValue(OrZero(results.combined_confidence))
    ELSE Ok(Num(0))
\* measurements of canon_measurements_list and canon_deviations_data
Measurements ==
    IF Has("neoclassical_result") THEN CanonMeasurements(results.neoclassical_result) ELSE <<>>

\* DemoState.overall_confidence
overall_confidence ==
    IF ~NonEmpty(results) THEN Ok(Str("N/A"))
    ELSE IF "combined_confidence" \in DOMAIN results
    THEN PercentText(OrZero(results.combined_confidence))
    ELSE IF "metadata" \in DOMAIN results
    THEN (IF results.metadata = NoneV THEN Raise("AttributeError")
          ELSE PercentText(Field(results.metadata, "overall_confidence", Num(0))))
    ELSE Ok(Str("N/A"))

\* DemoState.personality_radar_data
personality_radar_data ==
    IF Has("wd_result") /\ "personality_profile" \in DOMAIN results.wd_result
    THEN LET profile == results.wd_result.personality_profile
             Value(k) == TraitToNumeric(IF k \in DOMAIN profile THEN profile[k] ELSE Num(50))
         IN  Ok(List(<<[dimension |-> "Social Orientation", value |-> Value("social_orientation")],
                       [dimension |-> "Relational Field", value |-> Value("relational_field")],
                       [dimension |-> "Communication", value |-> Value("communication_style")],
                       [dimension |-> "Leadership", value |-> Value("leadership")],
                       [dimension |-> "Interpersonal",
                        value |-> Value("interpersonal_effectiveness")],
                       [dimension |-> "Emotional Expr.",
                        value |-> Value("emotional_expressiveness")],
                       [dimension |-> "Social Energy", value |-> Value("social_energy_level")],
                       [dimension |-> "Conflict Res.",
                        value |-> Value("conflict_resolution_style")]>>))
    ELSE Ok(List(<<>>))

\* DemoState.impulsivity_radar_data, values in thousandths: 95 = 0.095
impulsivity_radar_data ==
    IF ~Has("forehead_result") THEN Ok(List(<<>>))
    ELSE IF "impulsivity_profile" \in DOMAIN results.forehead_result
    THEN LET profile == results.forehead_result.impulsivity_profile
             \* float(profile.get(k, 0.5) or 0.5)
             Value(k) == IF k \in DOMAIN profile /\ TruthyNum(profile[k])
                         THEN 10 * profile[k].v ELSE 500
         IN  Ok(List(<<[dimension |-> "Motor", value |-> Value("motor_impulsiveness")],
                       [dimension |-> "Cognitive", value |-> Value("cognitive_impulsiveness")],
                       [dimension |-> "Non-Planning",
                        value |-> Value("non_planning_impulsiveness")],
                       [dimension |-> "Attentional",
                        value |-> Value("attentional_impulsiveness")],
                       [dimension |-> "Risk Taking", value |-> Value("risk_taking_tendency")],
                       [dimension |-> "Sensation Seek", value |-> Value("sensation_seeking")],
                       [dimension |-> "Behavioral Inh.",
                        value |-> Value("behavioral_inhibition")],
                       [dimension |-> "Emotional Reg.",
                        value |-> Value("emotional_regulation")]>>))
    ELSE LET base_val ==
                 BaseValue(IF "impulsiveness_level" \in DOMAIN results.forehead_result
                           THEN results.forehead_result.impulsiveness_level ELSE "moderate")
         IN  Ok(List(<<[dimension |-> "Motor", value |-> 10 * base_val],
                       [dimension |-> "Cognitive", value |-> 9 * base_val],
                       [dimension |-> "Non-Planning", value |-> 11 * base_val],
                       [dimension |-> "Attentional", value |-> (95 * base_val) \div 10],
                       [dimension |-> "Risk Taking", value |-> 10 * base_val],
                       [dimension |-> "Sensation Seek", value |-> (105 * base_val) \div 10],
                       [dimension |-> "Behavioral Inh.", value |-> 1000 - 10 * base_val],
                       [dimension |-> "Emotional Reg.", value |-> 1000 - 8 * base_val]>>))

\* DemoState.module_confidences: the entries in the order they are appended
module_confidences ==
    LET present == <<Has("wd_result"), Has("forehead_result"), Has("morphology_result"),
                     Has("neoclassical_result") \/ Has("canons_result")
                         \/ Has("canon_measurements")>>
        confs == <<ConfidenceValue("wd_result"), ConfidenceValue("forehead_result"),
                   ConfidenceValue("morphology_result"),
                   IF Has("neoclassical_result")
                      /\ "overall_score" \in DOMAIN results.neoclassical_result
                   THEN ClampValue(Num(results.neoclassical_result.overall_score))
                   ELSE Ok(Num(0))>>
        names == <<"WD", "Forehead", "Morphology", "Canons">>
        Entry(i) == IF present[i]
                    THEN <<[module |-> names[i], confidence |-> confs[i].v.v,
                            status |-> "active"]>>
                    ELSE <<>>
        failed == {i \in 1 .. 4 : present[i] /\ confs[i].raised}
    IN  IF failed # {} THEN confs[CHOOSE i \in failed : \A j \in failed : i <= j]
        ELSE Ok(List(Entry(1) \o Entry(2) \o Entry(3) \o Entry(4)))

\* the computed vars that read results, by name
Projections ==
    [overall_confidence |-> overall_confidence,
     processing_time |->
        IF ~NonEmpty(results) \/ "metadata" \notin DOMAIN results THEN Ok(Str("N/A"))
        ELSE IF results.metadata = NoneV THEN Raise("AttributeError")
        ELSE IF TruthyNum(Field(results.metadata, "processing_time", Num(0)))
        THEN FormatSpec(Field(results.metadata, "processing_time", Num(0)), ".2f", "s")
        ELSE Ok(Str("N/A")),
     is_multi_angle_result |->
        Ok(Flag(NonEmpty(results) /\ "combined_confidence" \in DOMAIN results)),
     has_wd_results |-> Ok(Flag(Has("wd_result") \/ Has("combined_wd_value"))),
     wd_value |->
        IF Has("wd_result")
        THEN FormatSpec(Field(results.wd_result, "wd_value", Num(0)), ".3f",
                        IF "units" \in DOMAIN results.wd_result
                        THEN results.wd_result.units ELSE "px")
        ELSE IF Has("combined_wd_value") THEN FormatSpec(results.combined_wd_value, ".3f", "px")
        ELSE Ok(Str("N/A")),
     wd_classification |->
        IF Has("wd_result")
        THEN Ok(Str(IF "classification" \in DOMAIN results.wd_result
                    THEN results.wd_result.classification ELSE "N/A"))
        ELSE IF Has("combined_wd_value")
        THEN Ok(Str(IF results.combined_wd_value.v > 0 THEN "wider_jaw" ELSE "reserved"))
        ELSE Ok(Str("N/A")),
     wd_confidence |-> ConfidenceText("wd_result"),
     wd_confidence_value |-> ConfidenceValue("wd_result"),
     wd_bizygomatic |->
        IF Has("wd_result") /\ TruthyNum(Field(results.wd_result, "bizygomatic_width", Num(0)))
        THEN FormatSpec(Field(results.wd_result, "bizygomatic_width", Num(0)), ".2f",
                        results.wd_result.units)
        ELSE Ok(Str("N/A")),
     wd_bigonial |->
        IF Has("wd_result") /\ TruthyNum(Field(results.wd_result, "bigonial_width", Num(0)))
        THEN FormatSpec(Field(results.wd_result, "bigonial_width", Num(0)), ".2f",
                        results.wd_result.units)
        ELSE Ok(Str("N/A")),
     personality_traits |->
        IF ~Has("wd_result") THEN Ok(List(<<>>))
        ELSE IF "personality_profile" \in DOMAIN results.wd_result
        THEN Ok(List([i \in 1 .. 8 |-> [trait |-> i]]))
        ELSE IF "classification" \in DOMAIN results.wd_result
        THEN Ok(List(<<[trait |-> "Social Orientation"],
                       [trait |-> "Classification",
                        value |-> results.wd_result.classification]>>))
        ELSE Ok(List(<<>>)),
     has_forehead_results |->
        Ok(Flag(Has("forehead_result") \/ Has("combined_forehead_angle"))),
     forehead_angle |->
        IF Has("forehead_result")
           /\ TruthyNum(Field(results.forehead_result, "slant_angle", Num(0)))
        THEN FormatSpec(Field(results.forehead_result, "slant_angle", Num(0)), ".1f", "deg")
        ELSE IF Has("combined_forehead_angle")
        THEN FormatSpec(results.combined_forehead_angle, ".1f", "deg")
        ELSE Ok(Str("N/A")),
     forehead_impulsiveness |->
        IF Has("forehead_result") /\ "impulsiveness_level" \in DOMAIN results.forehead_result
        THEN Ok(Str(results.forehead_result.impulsiveness_level))
        ELSE IF Has("combined_forehead_angle")
        THEN Ok(Str(IF results.combined_forehead_angle.v < 1000 THEN "very_low"
                    ELSE IF results.combined_forehead_angle.v < 1500 THEN "low"
                    ELSE IF results.combined_forehead_angle.v < 2500 THEN "moderate"
                    ELSE IF results.combined_forehead_angle.v < 3500 THEN "high"
                    ELSE "very_high"))
        ELSE Ok(Str("N/A")),
     forehead_confidence |-> ConfidenceText("forehead_result"),
     forehead_confidence_value |-> ConfidenceValue("forehead_result"),
     forehead_height |->
        IF Has("forehead_result")
        THEN FormatSpec(Field(results.forehead_result, "forehead_height", Num(0)), ".1f", "px")
        ELSE Ok(Str("N/A")),
     forehead_geometry_details |->
        IF Has("forehead_result") /\ "geometry" \in DOMAIN results.forehead_result
        THEN Ok(List([i \in 1 .. 6 |-> [metric |-> i]]))
        ELSE Ok(List(<<>>)),
     has_morphology_results |->
        Ok(Flag(Has("morphology_result") \/ Has("combined_face_shape"))),
     morphology_shape |->
        IF Has("morphology_result") THEN Ok(Str(results.morphology_result.face_shape))
        ELSE IF Has("combined_face_shape") THEN Ok(results.combined_face_shape)
        ELSE Ok(Str("N/A")),
     morphology_index |->
        IF Has("morphology_result")
           /\ TruthyNum(Field(results.morphology_result, "facial_index", Num(0)))
        THEN FormatSpec(Field(results.morphology_result, "facial_index", Num(0)), ".1f", "")
        ELSE Ok(Str("N/A")),
     morphology_ratio |->
        IF Has("morphology_result")
           /\ TruthyNum(Field(results.morphology_result, "width_height_ratio", Num(0)))
        THEN FormatSpec(Field(results.morphology_result, "width_height_ratio", Num(0)), ".3f", "")
        ELSE Ok(Str("N/A")),
     morphology_confidence |-> ConfidenceText("morphology_result"),
     morphology_confidence_value |-> ConfidenceValue("morphology_result"),
     morphology_proportions |->
        IF Has("morphology_result") /\ "proportions" \in DOMAIN results.morphology_result
        THEN Ok(List([i \in 1 .. 6 |-> [metric |-> i]]))
        ELSE Ok(List(<<>>)),
     has_canons_results |->
        Ok(Flag(Has("neoclassical_result") \/ Has("canons_result") \/ Has("canon_measurements"))),
     canons_overall_score |->
        IF Has("neoclassical_result") /\ "overall_score" \in DOMAIN results.neoclassical_result
        THEN FormatSpec(Num(results.neoclassical_result.overall_score), ".1f", "%")
        ELSE Ok(Str("N/A")),
     canons_overall_score_value |->
        IF Has("neoclassical_result") /\ "overall_score" \in DOMAIN results.neoclassical_result
        THEN ClampValue(Num(results.neoclassical_result.overall_score))
        ELSE Ok(Num(0)),
     canon_measurements_list |->
        Ok(List([n \in DOMAIN Measurements |->
                    [name |-> n,
                     measured |-> FormatSpec(Field(Measurements[n], "measured_value", Num(0)),
                                             ".3f", "").v,
                     deviation |-> FormatSpec(Field(Measurements[n], "deviation", Num(0)),
                                              ".1f", "%").v,
                     in_range |-> Measurements[n].within_range,
                     confidence |-> FormatSpec(Field(Measurements[n], "confidence", Num(0)),
                                               ".1f", "%").v]])),
     analysis_success |->
        Ok(Flag(NonEmpty(results) /\ ("success" \in DOMAIN results => results.success))),
     analysis_error |-> Ok(Str(analysis_error)),
     num_angles_analyzed |->
        IF NonEmpty(results) /\ "num_angles" \in DOMAIN results THEN Ok(Num(results.num_angles))
        ELSE Ok(Num(IF NonEmpty(results) THEN 1 ELSE 0)),
     personality_radar_data |-> personality_radar_data,
     demographic_percentile_value |-> Ok(Num(demographic_percentile_value)),
     impulsivity_radar_data |-> impulsivity_radar_data,
     neuroscience_bar_data |-> Ok(List(<<>>)),
     face_shape_probabilities |->
        IF ~Has("morphology_result") THEN Ok(List(<<>>))
        ELSE IF "shape_probabilities" \in DOMAIN results.morphology_result
        THEN Ok(List(SortedDescending(results.morphology_result.shape_probabilities)))
        ELSE LET morph == results.morphology_result
                 confidence == IF "shape_confidence" \in DOMAIN morph THEN morph.shape_confidence
                               ELSE IF "confidence" \in DOMAIN morph THEN morph.confidence
                               ELSE 70
             IN  Ok(List(<<[shape |-> IF "face_shape" \in DOMAIN morph THEN morph.face_shape
                                      ELSE "Unknown",
                            probability |-> confidence],
                           [shape |-> "Other", probability |-> 100 - confidence]>>)),
     proportions_bar_data |->
        IF Has("morphology_result") /\ "proportions" \in DOMAIN results.morphology_result
        THEN Ok(List([i \in 1 .. 3 |-> [proportion |-> i]]))
        ELSE Ok(List(<<>>)),
     canon_deviations_data |->
        Ok(List([n \in DOMAIN Measurements |->
                    [name |-> n,
                     deviation |-> Measurements[n].deviation,
                     in_range |-> Measurements[n].within_range]])),
     module_confidences |-> module_confidences,
     wd_evidence_level |->
        Ok(Str(IF Has("wd_result") /\ "evidence_level" \in DOMAIN results.wd_result
               THEN results.wd_result.evidence_level ELSE "validated")),
     forehead_evidence_level |->
        Ok(Str(IF Has("forehead_result") /\ "evidence_level" \in DOMAIN results.forehead_result
               THEN results.forehead_result.evidence_level ELSE "validated")),
     confidence_intervals_data |-> Ok([tag |-> "dict", v |-> <<>>])]

\* the computed vars that read another one: harmony_score_value returns
\* canons_overall_score_value, and each figure var draws one computed var
\* (go.Figure() for no data, else the chart of plotly_charts)
Figures(shown) ==
    LET FigureData ==
            [personality_radar_figure |-> "personality_radar_data",
             demographic_gauge_figure |-> "demographic_percentile_value",
             impulsivity_radar_figure |-> "impulsivity_radar_data",
             neuroscience_bar_figure |-> "neuroscience_bar_data",
             face_shape_donut_figure |-> "face_shape_probabilities",
             proportions_bar_figure |-> "proportions_bar_data",
             canon_deviation_bar_figure |-> "canon_deviations_data",
             harmony_gauge_figure |-> "canons_overall_score_value",
             harmony_score_value |-> "canons_overall_score_value",
             confidence_dashboard_figure |-> "module_confidences"]
    IN  [f \in DOMAIN FigureData |->
            IF shown[FigureData[f]].raised \/ f = "harmony_score_value"
            THEN shown[FigureData[f]]
            ELSE Ok([tag |-> "figure", data |-> shown[FigureData[f]].v])]

\* a run of analyze is over and left a record in results
RunLeftRecord == step = "idle" /\ NonEmpty(results)

\* C15: when a run of DemoState.analyze ends with a record whose success is
\* false, the error alert of the demo page shows the error string of that
\* record.
C15_FailureShownInAlert ==
    (RunLeftRecord /\ ~results.success) => ErrorAlert = results.error

\* two dicts with the same keys and values
SameDict(a, b) == DOMAIN a = DOMAIN b /\ \A k \in DOMAIN a : a[k] = b[k]

\* C16: DemoState.results changes only in analyze, which empties it when a
\* run starts and sets it to the returned record when the run ends, and in
\* clear_all, which empties it; the upload handlers, clear_frontal,
\* clear_profile, export_results and the service leave it as it is.
C16_ResultsFrame ==
    [][~SameDict(results', results) =>
          \/ AnalyzeBegin /\ ~NonEmpty(results')
          \/ AnalyzeEnd /\ SameDict(results', ret[1])
          \/ ClearAll /\ ~NonEmpty(results')]_vars
\* a record is still held after the image it was made from was cleared
C16_Witness ==
    /\ step = "idle"
    /\ NonEmpty(results)
    /\ frontal_image_path = ""
    /\ profile_image_path # ""

\* the numbers a clamp is tried on, in hundredths: -0.50 to 1.50 in steps of
\* 0.05, the numbers next to 0 and to 1, and the WD confidences the SDK
\* reported to the calls under way
RawValues ==
    {5 * i : i \in -10 .. 30} \cup {-1, 1, 99, 101} \cup
    {raw[t].wd_result.measurement_confidence.v :
        t \in {u \in Threads : /\ call[u] # NoCall
                                /\ call[u].op = "single"
                                /\ GotResult(u)
                                /\ Truthy(raw[u].wd_result)}}

\* C18: max(0.0, min(1.0, x)) lies in [0, 1] for every x, is x itself for x
\* in [0, 1], 1.0 for x above 1 and 0.0 for x below 0, and clamping twice is
\* clamping once.
C18_ClampLaws ==
    \A x \in RawValues :
        /\ Clamp(x) \in 0 .. 100
        /\ (x \in 0 .. 100 => Clamp(x) = x)
        /\ (x > 100 => Clamp(x) = 100)
        /\ (x < 0 => Clamp(x) = 0)
        /\ Clamp(Clamp(x)) = Clamp(x)
\* the service clamped a WD confidence of 1.25 to 1.0 and one of -0.1 to 0.0
C18_Witness ==
    /\ Returned(1)
    /\ call[1].op = "single"
    /\ GotResult(1)
    /\ Truthy(raw[1].wd_result)
    /\ HasSub(ret[1], "wd_result")
    /\ \/ raw[1].wd_result.measurement_confidence = Num(-10) /\ ret[1].wd_result.confidence = 0
       \/ raw[1].wd_result.measurement_confidence = Num(125) /\ ret[1].wd_result.confidence = 100


\* C19: in a success record of either path the neoclassical record's
\* overall_score and confidence and the confidence of each of its canon
\* measurements lie in [0, 1], whatever the SDK reported.
C19_NeoInUnit ==
    \A t \in Threads :
        (Returned(t) /\ ret[t].success /\ HasSub(ret[t], "neoclassical_result")) =>
            /\ ret[t].neoclassical_result.overall_score \in 0 .. 100
            /\ ret[t].neoclassical_result.confidence \in 0 .. 100
            /\ \A n \in DOMAIN CanonMeasurements(ret[t].neoclassical_result) :
                   CanonMeasurements(ret[t].neoclassical_result)[n].confidence \in 0 .. 100

\* the percentiles a WD record stores
StoredPercentiles(wd) ==
    (IF "demographic_percentile" \in DOMAIN wd /\ wd.demographic_percentile # NoneV
     THEN {wd.demographic_percentile.v} ELSE {})
    \cup
    (IF "demographic_data" \in DOMAIN wd THEN {wd.demographic_data.percentile} ELSE {})

\* C20: the demographic percentile stored in a WD record, as
\* demographic_percentile and as demographic_data.percentile, and the value
\* of DemoState.demographic_percentile_value lie in [0, 100] for every value
\* the SDK may report.
C20_PercentileInRange ==
    /\ (Returned(1) /\ ret[1].success /\ HasSub(ret[1], "wd_result")) =>
           \A x \in StoredPercentiles(ret[1].wd_result) : x \in 0 .. 10000
    /\ demographic_percentile_value \in 0 .. 10000

\* a default the claim lists: "N/A", 0.0, an empty list or false
ListedDefault(x) ==
    \/ x.tag = "str" /\ x.v = "N/A"
    \/ x.tag = "num" /\ x.v = 0
    \/ x.tag = "list" /\ DOMAIN x.v = {}
    \/ x.tag = "bool" /\ x.v = FALSE
\* the default of each computed var when there is no result
DefaultOf(p, x) ==
    IF p = "demographic_percentile_value" THEN x.tag = "num" /\ x.v = 5000
    ELSE IF p \in {"wd_evidence_level", "forehead_evidence_level"}
    THEN x.tag = "str" /\ x.v = "validated"
    ELSE IF p = "analysis_error" THEN x.tag = "str" /\ x.v = error_message
    ELSE IF p = "confidence_intervals_data" THEN x.tag = "dict" /\ DOMAIN x.v = {}
    ELSE ListedDefault(x)

C30_NoFrontalNoCall ==
    [][/\ (step = "idle" /\ frontal_image_path = "" /\ AnalyzeBegin) =>
              /\ error_message' = "Please upload a frontal image first"
              /\ is_processing' = is_processing
              /\ SameDict(results', results)
              /\ frontal_image' = frontal_image /\ frontal_image_path' = frontal_image_path
              /\ profile_image' = profile_image /\ profile_image_path' = profile_image_path
              /\ step' = "idle" /\ calls' = calls /\ pc' = pc
       /\ calls' # calls => frontal_image_path # ""]_vars
\* analyze was rejected after the frontal image of a stored record was cleared
C30_Witness ==
    /\ step = "idle"
    /\ frontal_image_path = ""
    /\ error_message = "Please upload a frontal image first"
    /\ NonEmpty(results)
    /\ ~is_processing

\* C29: the call analyze makes is the multi-angle analysis of the frontal
\* path followed by the profile path exactly when profile_image_path is
\* non-empty at the start of the run, and the single-image analysis of the
\* frontal path in the configured analysis_mode otherwise; clear_profile and
\* clear_all empty profile_image_path, and no call made while it is empty
\* carries a profile path.
C29_CallFollowsProfilePath ==
    [][/\ (step = "idle" /\ step' = "yielded") =>
              /\ profile_image_path' = profile_image_path
              /\ frontal_image_path' = frontal_image_path
       /\ (step = "yielded" /\ step' = "awaiting") =>
              /\ profile_image_path' = profile_image_path
              /\ call'[1] = IF profile_image_path # ""
                            THEN [op |-> "multi",
                                  image_paths |-> <<[path |-> frontal_image_path, angle_type |-> "frontal"],
                                                    [path |-> profile_image_path, angle_type |-> "profile"]>>,
                                  subject_id |-> "demo_subject"]
                            ELSE [op |-> "single", image_path |-> frontal_image_path,
                                  mode |-> analysis_mode, flags |-> AllEnabled]
       /\ (ClearProfile \/ ClearAll) => profile_image_path' = ""
       /\ (calls' # calls /\ profile_image_path = "") => call'[1].op = "single"]_vars
\* a run made after clear_profile, following a multi-angle run, calls the
\* single-image analysis
C29_Witness ==
    /\ step = "awaiting"
    /\ calls = 2
    /\ call[1].op = "single"
    /\ call[1].image_path = UploadedFrontalPath
    /\ profile_image_path = ""
    /\ \E h \in DOMAIN handles : handles[h].kind = "multi"

\* C27: is_processing is true exactly while an analysis run is in flight:
\* analyze has set it, with results and error_message emptied, before the
\* service is called, and however the call ends (a record, an empty result,
\* an exception) the run ends with is_processing false, so that can_analyze
\* holds again while a frontal image is set.
C27_ProcessingWhileInFlight ==
    /\ [](is_processing <=> step # "idle")
    /\ [](step = "yielded" => results = EmptyDict /\ error_message = "")
    /\ [](pc[1] # "idle" => is_processing)
    /\ is_processing ~> (~is_processing /\ step = "idle"
                             /\ (frontal_image_path # "" => can_analyze))
\* a run whose service call let an exception out has ended
C27_Witness ==
    /\ step = "idle"
    /\ ~is_processing
    /\ can_analyze
    /\ calls > 0
    /\ outcome[1] = "raised"
    /\ error_message = "Analysis failed: RuntimeError"

\* C21: overall_confidence, wd_confidence, forehead_confidence and
\* morphology_confidence show "N/A" when there is no result or no
\* confidence to format (no sub-record and no combined_confidence; for the
\* overall one no combined_confidence and no metadata); otherwise they show
\* the stored confidence clamped to [0, 1] as a percentage with one decimal,
\* never below 0.0% nor above 100.0%.
C21_ConfidenceTexts ==
    LET NA == Ok(Str("N/A"))
        Percent(c) == Ok([tag |-> "text",
                          v |-> IF c < 0 THEN 0 ELSE IF c > 100 THEN 100 ELSE c,
                          spec |-> ".1f", suffix |-> "%"])
        InRange(text) == text = NA \/ (~text.raised /\ text.v.tag = "text"
                                         /\ text.v.suffix = "%" /\ text.v.spec = ".1f"
                                         /\ text.v.v \in 0 .. 100)
        Combined == "combined_confidence" \in DOMAIN results
        Sub(key, text) ==
            /\ InRange(text)
            /\ ~NonEmpty(results) => text = NA
            /\ Has(key) /\ "confidence" \in DOMAIN results[key]
                   => text = Percent(results[key].confidence)
            /\ NonEmpty(results) /\ ~Has(key) /\ ~Combined => text = NA
            /\ (NonEmpty(results) /\ ~Has(key) /\ Combined
                    /\ results.combined_confidence.tag = "num")
                   => text = Percent(results.combined_confidence.v)
    IN  /\ Sub("wd_result", ConfidenceText("wd_result"))
        /\ Sub("forehead_result", ConfidenceText("forehead_result"))
        /\ Sub("morphology_result", ConfidenceText("morphology_result"))
        /\ InRange(overall_confidence)
        /\ ~NonEmpty(results) => overall_confidence = NA
        /\ (NonEmpty(results) /\ Combined /\ results.combined_confidence.tag = "num")
               => overall_confidence = Percent(results.combined_confidence.v)
        /\ (NonEmpty(results) /\ ~Combined /\ Has("metadata")
                /\ "overall_confidence" \in DOMAIN results.metadata)
               => overall_confidence = Percent(results.metadata.overall_confidence)
        /\ (NonEmpty(results) /\ ~Combined /\ "metadata" \notin DOMAIN results)
               => overall_confidence = NA
\* a forehead confidence stored above 1 is shown as 100.0%, and the record
\* has no WD sub-record and no combined confidence to show for it
C21_Witness ==
    /\ Has("forehead_result")
    /\ results.forehead_result.confidence > 100
    /\ ConfidenceText("forehead_result").v.v = 100
    /\ ~Has("wd_result")
    /\ ConfidenceText("wd_result") = Ok(Str("N/A"))

\* C26: module_confidences holds exactly one entry for each sub-record
\* present in results and none for an absent one, in the order WD, Forehead,
\* Morphology, Canons, each with status "active" and a confidence in
\* [0, 1]; it is empty when there is no result.
C26_ModuleConfidences ==
    LET shown == module_confidences
        KeyOf == [WD |-> "wd_result", Forehead |-> "forehead_result",
                  Morphology |-> "morphology_result", Canons |-> "neoclassical_result"]
        Present(name) == Has(KeyOf[name])
        expected == SelectSeq(<<"WD", "Forehead", "Morphology", "Canons">>, Present)
    IN  /\ ~shown.raised
        /\ shown.v.tag = "list"
        /\ Len(shown.v.v) = Len(expected)
        /\ \A i \in 1 .. Len(expected) :
              /\ shown.v.v[i].module = expected[i]
              /\ shown.v.v[i].status = "active"
              /\ shown.v.v[i].confidence \in 0 .. 100
        /\ ~NonEmpty(results) => shown.v.v = <<>>
\* a record with a forehead confidence stored above 1 and no WD sub-record:
\* the first entry is the forehead one, with confidence 1
C26_Witness ==
    /\ ~Has("wd_result")
    /\ Has("forehead_result")
    /\ results.forehead_result.confidence > 100
    /\ Has("neoclassical_result")
    /\ Len(module_confidences.v.v) >= 2
    /\ module_confidences.v.v[1].module = "Forehead"
    /\ module_confidences.v.v[1].confidence = 100

\* C28: in every WD record shown, the unit next to bizygomatic_width and
\* bigonial_width is the unit of the field the width was taken from: "cm"
\* when it is the centimeter value, "px" when it is the pixel value kept
\* under <width>_px, whichever of the centimeter fields are 0.
C28_WidthUnits ==
    LET shown == Projections
        wd == results.wd_result
        Unit(text, width, px) ==
            (~text.raised /\ text.v.tag = "text") =>
                /\ text.v.v = width
                /\ text.v.suffix = IF width = px THEN "px" ELSE "cm"
    IN  Has("wd_result") /\ "bizygomatic_width" \in DOMAIN results.wd_result =>
            /\ Unit(shown.wd_bizygomatic, wd.bizygomatic_width, wd.bizygomatic_width_px)
            /\ Unit(shown.wd_bigonial, wd.bigonial_width, wd.bigonial_width_px)

\* C22: personality_radar_data is empty when results has no WD record or
\* the WD record no personality profile; otherwise it has exactly 8 entries
\* in the order Social Orientation, Relational Field, Communication,
\* Leadership, Interpersonal, Emotional Expr., Social Energy, Conflict Res.,
\* each value in [0, 1]: a numeric trait clamped, "Very High" / "High" /
\* "Moderate" / "Low" / "Very Low" as 0.9 / 0.7 / 0.5 / 0.3 / 0.1, "N/A" as
\* 0.0 and any other text as 0.5.
C22_PersonalityRadar ==
    LET shown == personality_radar_data
        Keys == <<"social_orientation", "relational_field", "communication_style",
                  "leadership", "interpersonal_effectiveness", "emotional_expressiveness",
                  "social_energy_level", "conflict_resolution_style">>
        Names == <<"Social Orientation", "Relational Field", "Communication", "Leadership",
                   "Interpersonal", "Emotional Expr.", "Social Energy", "Conflict Res.">>
        Labels == [l \in {"Very High", "High", "Moderate", "Low", "Very Low", "N/A"} |->
                      CASE l = "Very High" -> 90 [] l = "High" -> 70 [] l = "Moderate" -> 50
                        [] l = "Low" -> 30 [] l = "Very Low" -> 10 [] l = "N/A" -> 0]
    IN  /\ ~shown.raised
        /\ shown.v.tag = "list"
        /\ IF Has("wd_result") /\ "personality_profile" \in DOMAIN results.wd_result
           THEN /\ Len(shown.v.v) = 8
                /\ \A i \in 1 .. 8 :
                      LET trait == results.wd_result.personality_profile[Keys[i]]
                          value == shown.v.v[i].value
                      IN  /\ shown.v.v[i].dimension = Names[i]
                          /\ value \in 0 .. 100
                          /\ trait.tag = "num" =>
                                value = IF trait.v < 0 THEN 0
                                        ELSE IF trait.v > 100 THEN 100 ELSE trait.v
                          /\ trait.tag = "str" =>
                                value = IF trait.v \in DOMAIN Labels THEN Labels[trait.v] ELSE 50
           ELSE shown.v.v = <<>>
\* a profile with scores below 0 and above 1 is shown clamped
C22_Witness ==
    /\ Has("wd_result")
    /\ "personality_profile" \in DOMAIN results.wd_result
    /\ results.wd_result.personality_profile.social_orientation = Num(-10)
    /\ results.wd_result.personality_profile.leadership = Num(125)
    /\ personality_radar_data.v.v[1].value = 0
    /\ personality_radar_data.v.v[4].value = 100

\* the BIS-11 dimensions in the order of the radar
Dimensions ==
    <<"motor_impulsiveness", "cognitive_impulsiveness", "non_planning_impulsiveness",
      "attentional_impulsiveness", "risk_taking_tendency", "sensation_seeking",
      "behavioral_inhibition", "emotional_regulation">>

\* C23: when the forehead record has an impulsivity profile,
\* impulsivity_radar_data has exactly 8 entries whose values are the stored
\* values of the 8 BIS-11 dimensions (a stored 0.0 is shown as 0.0), each in
\* [0, 1].
C23_ProfileAsStored ==
    LET shown == impulsivity_radar_data
    IN  (Has("forehead_result") /\ "impulsivity_profile" \in DOMAIN results.forehead_result) =>
            /\ ~shown.raised
            /\ Len(shown.v.v) = 8
            /\ \A i \in 1 .. 8 :
                  LET stored == results.forehead_result.impulsivity_profile[Dimensions[i]]
                  IN  /\ shown.v.v[i].value \in 0 .. 1000
                      /\ stored.tag = "num" => shown.v.v[i].value = 10 * stored.v

\* C24: without an impulsivity profile the 8 values come from the level:
\* base is 0.1, 0.3, 0.5, 0.7, 0.9 for very_low, low, moderate, high,
\* very_high and 0.5 for another level; motor = base, cognitive = 0.9 base,
\* non_planning = 1.1 base, attentional = 0.95 base, risk_taking = base,
\* sensation_seeking = 1.05 base, behavioral_inhibition = 1 - base,
\* emotional_regulation = 1 - 0.8 base, and every value is in [0, 1].
C24_ValuesFromLevel ==
    LET shown == impulsivity_radar_data
        Table == [very_low |-> 100, low |-> 300, moderate |-> 500, high |-> 700,
                  very_high |-> 900]
    IN  (Has("forehead_result") /\ "impulsivity_profile" \notin DOMAIN results.forehead_result) =>
            /\ ~shown.raised
            /\ Len(shown.v.v) = 8
            /\ LET level == results.forehead_result.impulsiveness_level
                   value == [i \in 1 .. 8 |-> shown.v.v[i].value]
                   base == value[1]
               IN  /\ level \in DOMAIN Table => base = Table[level]
                   /\ Lower(level) \notin DOMAIN Table => base = 500
                   /\ base \in {100, 300, 500, 700, 900}
                   /\ 10 * value[2] = 9 * base
                   /\ 10 * value[3] = 11 * base
                   /\ 100 * value[4] = 95 * base
                   /\ value[5] = base
                   /\ 100 * value[6] = 105 * base
                   /\ value[7] = 1000 - base
                   /\ 10 * value[8] = 10000 - 8 * base
                   /\ \A i \in 1 .. 8 : value[i] \in 0 .. 1000
\* the highest level: non_planning is 0.99 and behavioral_inhibition 0.1
C24_Witness ==
    /\ Has("forehead_result")
    /\ "impulsivity_profile" \notin DOMAIN results.forehead_result
    /\ results.forehead_result.impulsiveness_level = "very_high"
    /\ impulsivity_radar_data.v.v[3].value = 990
    /\ impulsivity_radar_data.v.v[7].value = 100

\* C25: face_shape_probabilities is empty when results has no morphology
\* record; when the record has a probability of each shape it has one entry
\* for each shape, in order of non-increasing probability; otherwise it has
\* exactly two entries, the primary shape with c and "Other" with 1 - c, c
\* being the shape confidence, and both probabilities are in [0, 1].
C25_FaceShapeProbabilities ==
    LET shown == Projections.face_shape_probabilities
        morph == results.morphology_result
    IN  /\ ~shown.raised
        /\ ~Has("morphology_result") => shown.v.v = <<>>
        /\ (Has("morphology_result") /\ "shape_probabilities" \in DOMAIN morph) =>
              /\ Len(shown.v.v) = Len(morph.shape_probabilities)
              /\ \A i \in DOMAIN morph.shape_probabilities :
                    Cardinality({j \in DOMAIN shown.v.v :
                                    shown.v.v[j] = morph.shape_probabilities[i]}) = 1
              /\ \A i, j \in DOMAIN shown.v.v :
                    i < j => shown.v.v[i].probability >= shown.v.v[j].probability
        /\ (Has("morphology_result") /\ "shape_probabilities" \notin DOMAIN morph) =>
              /\ Len(shown.v.v) = 2
              /\ shown.v.v[1].shape = morph.face_shape
              /\ shown.v.v[2].shape = "Other"
              /\ "shape_confidence" \in DOMAIN morph =>
                    shown.v.v[1].probability = morph.shape_confidence
              /\ shown.v.v[2].probability = 100 - shown.v.v[1].probability
              /\ shown.v.v[1].probability \in 0 .. 100
              /\ shown.v.v[2].probability \in 0 .. 100

====
